---------------------------- MODULE Spec2Model ----------------------------
(***************************************************************************)
(* The exterior-point optimizer of packages/core/src/engine/Optimizer.ts   *)
(* (src/unnamed/part_001): step, minimize, lbfgs, lbfgsInner,              *)
(* awLineSearch2, genOptProblem, and the callers' view of the State they   *)
(* thread through step.                                                    *)
(*                                                                         *)
(* Numbers.  A JavaScript number is modelled as a pair <<n, d>>:           *)
(*   d > 0      the rational n/d in lowest terms (arithmetic is exact;     *)
(*              rounding of IEEE doubles is not modelled),                 *)
(*   <<0, 0>>   NaN,   <<1, 0>> +Infinity,   <<-1, 0>> -Infinity,          *)
(*   <<1, -1>>  the constant EPSD = 1e-11 and <<-1, -1>> its reciprocal,   *)
(*              which only occur inside lbfgsInner (see AddEPSD).          *)
(* Negative zero is identified with zero.                                  *)
(***************************************************************************)
EXTENDS Integers, Sequences, FiniteSets, TLC

NaN    == <<0, 0>>
PosInf == <<1, 0>>
NegInf == <<-1, 0>>
Zero   == <<0, 1>>
One    == <<1, 1>>
Two    == <<2, 1>>
EpsTok == <<1, -1>>
BigTok == <<-1, -1>>

\* a value the exact arithmetic cannot represent: evaluating it stops TLC
OutOfRange == CHOOSE v \in {} : TRUE

IsNaN(a) == a = NaN
IsInf(a) == a = PosInf \/ a = NegInf
IsRat(a) == a[2] > 0

AbsInt(n) == IF n < 0 THEN -n ELSE n
Sgn(n) == IF n > 0 THEN 1 ELSE IF n < 0 THEN -1 ELSE 0

RECURSIVE GCD(_, _)
GCD(a, b) == IF b = 0 THEN a ELSE GCD(b, a % b)

\* the rational n/d (d > 0) in lowest terms
Norm(n, d) == LET g == GCD(AbsInt(n), d) IN <<n \div g, d \div g>>

Neg(a) == IF a[2] < 0 THEN OutOfRange ELSE <<-a[1], a[2]>>

\* IEEE addition: NaN absorbs, Infinity + -Infinity = NaN
Add(a, b) ==
  IF a[2] < 0 \/ b[2] < 0 THEN OutOfRange
  ELSE IF IsNaN(a) \/ IsNaN(b) THEN NaN
  ELSE IF a[2] = 0 /\ b[2] = 0 THEN (IF a = b THEN a ELSE NaN)
  ELSE IF a[2] = 0 THEN a
  ELSE IF b[2] = 0 THEN b
  ELSE LET g == GCD(a[2], b[2])
       IN Norm(a[1] * (b[2] \div g) + b[1] * (a[2] \div g), (a[2] \div g) * b[2])

Sub(a, b) == Add(a, Neg(b))

\* IEEE multiplication: NaN absorbs, Infinity * 0 = NaN; 1/EPSD times 0 is 0
Mul(a, b) ==
  IF IsNaN(a) \/ IsNaN(b) THEN NaN
  ELSE IF a[2] < 0 \/ b[2] < 0
    THEN (IF a = Zero \/ b = Zero THEN Zero
          ELSE IF a = One THEN b
          ELSE IF b = One THEN a
          ELSE OutOfRange)
  ELSE IF a[2] = 0 \/ b[2] = 0
    THEN (IF a[1] = 0 \/ b[1] = 0 THEN NaN ELSE <<Sgn(a[1]) * Sgn(b[1]), 0>>)
  ELSE LET g1 == GCD(AbsInt(a[1]), b[2])
           g2 == GCD(AbsInt(b[1]), a[2])
       IN <<(a[1] \div g1) * (b[1] \div g2), (a[2] \div g2) * (b[2] \div g1)>>

\* 1/a: 1/0 = Infinity, 1/Infinity = 0
Recip(a) ==
  IF a = EpsTok THEN BigTok
  ELSE IF a = BigTok THEN EpsTok
  ELSE IF IsNaN(a) THEN NaN
  ELSE IF IsInf(a) THEN Zero
  ELSE IF a[1] = 0 THEN PosInf
  ELSE <<Sgn(a[1]) * a[2], AbsInt(a[1])>>

Div(a, b) == Mul(a, Recip(b))

\* n1/d1 < n2/d2 for d1, d2 > 0, by continued fractions (no products)
RECURSIVE RatLt(_, _, _, _)
RatLt(n1, d1, n2, d2) ==
  LET q1 == n1 \div d1
      q2 == n2 \div d2
      r1 == n1 % d1
      r2 == n2 % d2
  IN IF q1 # q2 THEN q1 < q2
     ELSE IF r2 = 0 THEN FALSE
     ELSE IF r1 = 0 THEN TRUE
     ELSE RatLt(d2, r2, d1, r1)

\* IEEE comparisons: every comparison with NaN is false
Lt(a, b) ==
  IF a[2] < 0 \/ b[2] < 0 THEN OutOfRange
  ELSE IF IsNaN(a) \/ IsNaN(b) THEN FALSE
  ELSE IF a[2] = 0 \/ b[2] = 0
    THEN (IF a[2] = 0 /\ b[2] = 0 THEN a[1] < b[1]
          ELSE IF a[2] = 0 THEN a[1] < 0
          ELSE b[1] > 0)
  ELSE RatLt(a[1], a[2], b[1], b[2])

Le(a, b) == ~IsNaN(a) /\ ~IsNaN(b) /\ ~Lt(b, a)
Gt(a, b) == Lt(b, a)
Ge(a, b) == Le(b, a)

\* Math.abs
Abs(a) == IF a[2] >= 0 /\ a[1] < 0 THEN Neg(a) ELSE a

(***************************************************************************)
(* Vectors are sequences of numbers (utils/OtherUtils).                    *)
(***************************************************************************)
RECURSIVE SumSeq(_)
SumSeq(s) == IF s = <<>> THEN Zero ELSE Add(SumSeq(SubSeq(s, 1, Len(s) - 1)), s[Len(s)])

dot(u, v) == SumSeq([j \in 1..Len(u) |-> Mul(u[j], v[j])])
addv(u, v) == [j \in 1..Len(u) |-> Add(u[j], v[j])]
subv(u, v) == [j \in 1..Len(u) |-> Sub(u[j], v[j])]
scalev(c, v) == [j \in 1..Len(v) |-> Mul(c, v[j])]
negv(v) == [j \in 1..Len(v) |-> Neg(v[j])]
repeat(n, a) == [j \in 1..n |-> a]

\* normList(v) is the Euclidean norm sqrt(sum v_j^2).  The optimizer only tests
\* it for NaN and compares it with a positive threshold; both are decided by the
\* sum of squares, which is what the model carries.
normListSq(v) == dot(v, v)

(***************************************************************************)
(* Program constants (part_001, lines 72-99, 408-415).                     *)
(***************************************************************************)
weightGrowthFactor == 10
constraintWeight == 100000
epStop == <<1, 1000>>
uoStop == <<1, 100>>
minInterval == <<1, 1000000000>>
c1 == <<1, 1000>>
c2 == <<9, 10>>
maxSteps == 10
initConstraintWeight == <<1, 100>>
MemSize == 17

(***************************************************************************)
(* The problems.  A term names a dictionary function and the variable      *)
(* slots it is applied to.  objDict/constrDict are supplied from outside   *)
(* the optimizer; the model offers "equal"(a, b) = (a - b)^2 as objective  *)
(* and "smallerThan"(a, b) = a - b (satisfied when <= 0) as                *)
(* constraint, and "missing" as a name with no dictionary entry.           *)
(***************************************************************************)
EqualAB == [name |-> "equal", args |-> <<1, 2>>]
SmallerAB == [name |-> "smallerThan", args |-> <<1, 2>>]

MissingAB == [name |-> "missing", args |-> <<1, 2>>]

EqualProblem == [objFns |-> <<EqualAB>>, constrFns |-> <<>>]
EqualsProblem == [objFns |-> <<EqualAB, EqualAB, EqualAB>>, constrFns |-> <<>>]
SmallerProblem == [objFns |-> <<>>, constrFns |-> <<SmallerAB>>]
MissingProblem == [objFns |-> <<EqualAB>>, constrFns |-> <<MissingAB>>]

\* f(x) = x^T x for one and for two variables
SquareProblem ==
  [objFns |-> <<[name |-> "equal", args |-> <<1, 0>>]>>, constrFns |-> <<>>]
SquareProblem2 ==
  [objFns |-> <<[name |-> "equal", args |-> <<1, 0>>],
                [name |-> "equal", args |-> <<2, 0>>]>>, constrFns |-> <<>>]

DictNames == {"equal", "smallerThan"}

\* an argument of a term: the index of a varying value, or 0 for the constant
\* 0.0 (a value of the translation that is not optimized)
argValue(k, xs) == IF k = 0 THEN Zero ELSE xs[k]

\* dict[f.name](...f.args.map(argValue))
applyFn(f, xs) ==
  LET a == argValue(f.args[1], xs)
      b == argValue(f.args[2], xs)
  IN IF f.name = "equal" THEN Mul(Sub(a, b), Sub(a, b))
     ELSE Sub(a, b)

\* the partial derivatives of applyFn(f, xs) with respect to xs
applyFnGrad(f, xs) ==
  LET a == argValue(f.args[1], xs)
      b == argValue(f.args[2], xs)
      da == IF f.name = "equal" THEN Mul(Two, Sub(a, b)) ELSE One
  IN [j \in 1..Len(xs) |->
        IF j = f.args[1] THEN da ELSE IF j = f.args[2] THEN Neg(da) ELSE Zero]

\* Math.max(c, 0): NaN if c is NaN
Max0(c) == IF IsNaN(c) THEN NaN ELSE IF Gt(c, Zero) THEN c ELSE Zero

\* fns.toPenalty: max(c, 0)^2
toPenalty(c) == Mul(Max0(c), Max0(c))

\* the penalty weight multiplying the whole energy, objective included
EnergyWeightedWhole(prob, w, xs) ==
  Mul(Add(SumSeq([k \in 1..Len(prob.objFns) |-> applyFn(prob.objFns[k], xs)]),
          Mul(SumSeq([k \in 1..Len(prob.constrFns) |->
                        toPenalty(applyFn(prob.constrFns[k], xs))]),
              <<constraintWeight, 1>>)),
      w)

\* the energy graph built by evalEnergyOnCustom, evaluated at xs with the
\* epWeight input set to w:  objEng + constrEng * (constraintWeight * epWeight)
Energy(prob, w, xs) ==
  LET objEng == SumSeq([k \in 1..Len(prob.objFns) |-> applyFn(prob.objFns[k], xs)])
      constrEng == SumSeq([k \in 1..Len(prob.constrFns) |->
                             toPenalty(applyFn(prob.constrFns[k], xs))])
  IN Add(objEng, Mul(constrEng, Mul(<<constraintWeight, 1>>, w)))

RECURSIVE SumVec(_, _)
SumVec(vs, n) ==
  IF vs = <<>> THEN repeat(n, Zero)
  ELSE addv(SumVec(SubSeq(vs, 1, Len(vs) - 1), n), vs[Len(vs)])

\* the gradient of Energy(prob, w, .) at xs (reverse-mode pass of the graph)
EnergyGrad(prob, w, xs) ==
  LET objG == SumVec([k \in 1..Len(prob.objFns) |-> applyFnGrad(prob.objFns[k], xs)],
                     Len(xs))
      conG == SumVec([k \in 1..Len(prob.constrFns) |->
                        LET c == applyFn(prob.constrFns[k], xs)
                        IN scalev(Mul(Two, Max0(c)), applyFnGrad(prob.constrFns[k], xs))],
                     Len(xs))
  IN addv(objG, scalev(Mul(<<constraintWeight, 1>>, w), conG))

(***************************************************************************)
(* awLineSearch2 (part_001, 389-529).  f and gradf are the closures        *)
(* currObjective / currGradient: the energy of prob bound to weight w.     *)
(* The result records the returned step length t, the bracket, the loop    *)
(* counter i and the number of trial points that were evaluated.           *)
(***************************************************************************)
\* the step count compared with > maxSteps + 1
shouldStopLate(numUpdates, ai, bi) ==
  Lt(Abs(Sub(bi, ai)), minInterval) \/ numUpdates > maxSteps + 1

shouldStop(numUpdates, ai, bi) ==
  LET intervalTooSmall == Lt(Abs(Sub(bi, ai)), minInterval)
      tooManySteps == numUpdates > maxSteps
  IN intervalTooSmall \/ tooManySteps

\* the sufficient-decrease comparison turned round (cond1 >= cond2)
armijoReversed(prob, w, xs0, descentDir, fxs0, dufAtx0, ti) ==
  Ge(Energy(prob, w, addv(xs0, scalev(ti, descentDir))),
     Add(fxs0, Mul(Mul(c1, ti), dufAtx0)))

armijo(prob, w, xs0, descentDir, fxs0, dufAtx0, ti) ==
  LET cond1 == Energy(prob, w, addv(xs0, scalev(ti, descentDir)))
      cond2 == Add(fxs0, Mul(Mul(c1, ti), dufAtx0))
  IN Le(cond1, cond2)

weakWolfe(prob, w, xs0, descentDir, dufAtx0, ti) ==
  LET cond1 == dot(descentDir, EnergyGrad(prob, w, addv(xs0, scalev(ti, descentDir))))
      cond2 == Mul(c2, dufAtx0)
  IN Ge(cond1, cond2)

\* The while loop, one pass per unfolding: lsLoop is the loop head and the two
\* condition tests, lsBranch the if / else-if / else on them, lsBisect the choice
\* of the next trial and i++.
RECURSIVE lsLoop(_, _, _, _, _, _, _)
RECURSIVE lsBranch(_, _, _, _, _, _, _, _, _)
RECURSIVE lsBisect(_, _, _, _, _, _)

\* the next trial always the midpoint, t = 2.0 * a never taken
lsBisectOnly(prob, w, cx, a, b, i) ==
  lsLoop(prob, w, cx, a, b, Div(Add(a, b), Two), i + 1)

lsBisect(prob, w, cx, a, b, i) ==
  lsLoop(prob, w, cx, a, b,
         IF Lt(b, PosInf) THEN Div(Add(a, b), Two) ELSE Mul(Two, a), i + 1)

lsBranch(prob, w, cx, a, b, t, i, isArmijo, isWolfe) ==
  IF ~isArmijo THEN lsBisect(prob, w, cx, a, t, i)
  ELSE IF ~isWolfe THEN lsBisect(prob, w, cx, t, b, i)
  ELSE [t |-> t, a |-> a, b |-> b, i |-> i, trials |-> i + 1, found |-> TRUE]

lsLoop(prob, w, cx, a, b, t, i) ==
  IF shouldStop(i, a, b)
  THEN [t |-> t, a |-> a, b |-> b, i |-> i, trials |-> i, found |-> FALSE]
  ELSE lsBranch(prob, w, cx, a, b, t, i,
                armijo(prob, w, cx.xs0, cx.descentDir, cx.fxs0, cx.dufAtx0, t),
                weakWolfe(prob, w, cx.xs0, cx.descentDir, cx.dufAtx0, t))

lsContext(xs0, descentDir, fxs0, gradAtx0) ==
  [xs0 |-> xs0, descentDir |-> descentDir, fxs0 |-> fxs0,
   dufAtx0 |-> dot(descentDir, gradAtx0)]

\* the unit step returned without a search
awLineSearchUnit(prob, w, xs0, gradfxs0, fxs0) ==
  [t |-> One, a |-> Zero, b |-> PosInf, i |-> 0, trials |-> 0, found |-> TRUE]

awLineSearch2(prob, w, xs0, gradfxs0, fxs0) ==
  lsLoop(prob, w, lsContext(xs0, negv(gradfxs0), fxs0, EnergyGrad(prob, w, xs0)),
         Zero, PosInf, One, 0)

(***************************************************************************)
(* L-BFGS (part_001, 564-747).  The memory record is LbfgsParams.          *)
(***************************************************************************)
Nothing == [tag |-> "Nothing"]
Just(v) == [tag |-> "Just", contents |-> v]

defaultLbfgsParams ==
  [lastState |-> Nothing, lastGrad |-> Nothing, s_list |-> <<>>, y_list |-> <<>>,
   numUnconstrSteps |-> 0, memSize |-> MemSize]

\* x + EPSD with EPSD = 1e-11.  EPSD only keeps the quotients of lbfgsInner
\* defined when a dot product is exactly 0; it is below the resolution of the
\* model's arithmetic otherwise.
AddEPSD(x) == IF x = Zero THEN EpsTok ELSE x

calculate_rho(s, y) == Div(One, AddEPSD(dot(y, s)))

\* the backward pass: a left fold of pull_q_back over the pairs, newest first
RECURSIVE pull_q_back(_, _, _, _, _, _)
pull_q_back(rhos, ss, ys, k, q, alphas) ==
  IF k > Len(ss) THEN [q |-> q, alphas |-> alphas]
  ELSE LET alpha_i == Mul(rhos[k], dot(ss[k], q))
           q_i == subv(q, scalev(alpha_i, ys[k]))
       IN pull_q_back(rhos, ss, ys, k + 1, q_i, Append(alphas, alpha_i))

\* h_0_k.matMul(q) for h_0_k = estimate_hess(y_km1, s_km1), which is
\* eig.Matrix.identity(n, n).mul(gamma_k)
estimate_hess(y_km1, s_km1, q) ==
  LET gamma_k == Div(dot(s_km1, y_km1), AddEPSD(dot(y_km1, y_km1)))
      n == Len(y_km1)
  IN [j \in 1..n |->
        SumSeq([k \in 1..n |-> Mul(Mul(IF j = k THEN One ELSE Zero, gamma_k), q[k])])]

\* the forward pass: push_r_forward over the pairs, oldest first
RECURSIVE push_r_forward(_, _, _, _, _, _)
push_r_forward(rhos, alphas, ss, ys, k, r) ==
  IF k < 1 THEN r
  ELSE LET beta_i == Mul(rhos[k], dot(ys[k], r))
           r2 == addv(r, scalev(Sub(alphas[k], beta_i), ss[k]))
       IN push_r_forward(rhos, alphas, ss, ys, k - 1, r2)

lbfgsInner(grad_fx_k, ss, ys) ==
  LET rhos == [k \in 1..Len(ss) |-> calculate_rho(ss[k], ys[k])]
      back == pull_q_back(rhos, ss, ys, 1, grad_fx_k, <<>>)
      r_k_minus_m == estimate_hess(ys[1], ss[1], back.q)
  IN push_r_forward(rhos, back.alphas, ss, ys, Len(ss), r_k_minus_m)

\* the last n elements of the list: the oldest pairs kept
takeRight(list, n) ==
  SubSeq(list, IF n < Len(list) THEN Len(list) - n + 1 ELSE 1, Len(list))

\* the list kept whole: the memory never truncated
takeAll(list, n) == list

\* _.take(list, n)
take(list, n) == SubSeq(list, 1, IF n < Len(list) THEN n ELSE Len(list))

\* the raw gradient returned on every call, lastState / lastGrad recorded only
\* while they are absent
lbfgsRecordOnce(xs, gradfxs, lbfgsInfo) ==
  [threw |-> FALSE,
   gradfxsPreconditioned |-> gradfxs,
   updatedLbfgsInfo |->
     [lbfgsInfo EXCEPT !.lastState = IF @.tag = "Nothing" THEN Just(xs) ELSE @,
                       !.lastGrad = IF @.tag = "Nothing" THEN Just(gradfxs) ELSE @,
                       !.s_list = <<>>, !.y_list = <<>>, !.numUnconstrSteps = 1]]

lbfgs(xs, gradfxs, lbfgsInfo) ==
  IF lbfgsInfo.numUnconstrSteps = 0
  THEN [threw |-> FALSE,
        gradfxsPreconditioned |-> gradfxs,
        updatedLbfgsInfo |->
          [lbfgsInfo EXCEPT !.lastState = Just(xs), !.lastGrad = Just(gradfxs),
                            !.s_list = <<>>, !.y_list = <<>>, !.numUnconstrSteps = 1]]
  ELSE IF lbfgsInfo.lastState.tag = "Just" /\ lbfgsInfo.lastGrad.tag = "Just"
  THEN LET km1 == lbfgsInfo.numUnconstrSteps
           s_km1 == subv(xs, lbfgsInfo.lastState.contents)
           y_km1 == subv(gradfxs, lbfgsInfo.lastGrad.contents)
           ss_km1 == take(<<s_km1>> \o lbfgsInfo.s_list, lbfgsInfo.memSize)
           ys_km1 == take(<<y_km1>> \o lbfgsInfo.y_list, lbfgsInfo.memSize)
       IN IF ss_km1 = <<>>
          THEN \* estimate_hess(ys[0], ss[0]) dereferences undefined: TypeError
               [threw |-> TRUE, gradfxsPreconditioned |-> gradfxs,
                updatedLbfgsInfo |-> lbfgsInfo]
          ELSE LET gradPreconditioned == lbfgsInner(gradfxs, ss_km1, ys_km1)
                   descentDirCheck == Mul(<<-1, 1>>, dot(gradPreconditioned, gradfxs))
               IN IF Gt(descentDirCheck, Zero)
                  THEN [threw |-> FALSE,
                        gradfxsPreconditioned |-> gradfxs,
                        updatedLbfgsInfo |->
                          [lbfgsInfo EXCEPT !.lastState = Just(xs),
                                            !.lastGrad = Just(gradfxs),
                                            !.s_list = <<>>, !.y_list = <<>>,
                                            !.numUnconstrSteps = 1]]
                  ELSE [threw |-> FALSE,
                        gradfxsPreconditioned |-> gradPreconditioned,
                        updatedLbfgsInfo |->
                          [lbfgsInfo EXCEPT !.lastState = Just(xs),
                                            !.lastGrad = Just(gradfxs),
                                            !.s_list = ss_km1, !.y_list = ys_km1,
                                            !.numUnconstrSteps = km1 + 1]]
  ELSE \* throw Error("Invalid L-BFGS state")
       [threw |-> TRUE, gradfxsPreconditioned |-> gradfxs, updatedLbfgsInfo |-> lbfgsInfo]

(***************************************************************************)
(* minimize (part_001, 749-872) and containsNaN (1083-1090).               *)
(***************************************************************************)
\* Number.isNaN(n) for a key n of `for (var n in numberList)`: the keys are the
\* index strings "0", "1", ..., and Number.isNaN of a string is false
KeyIsNaN(k) == FALSE

\* the loop over the elements (for ... of) instead of the keys
containsNaNOf(numberList) == \E k \in DOMAIN numberList : IsNaN(numberList[k])

containsNaN(numberList) == \E k \in DOMAIN numberList : KeyIsNaN(k)

\* the outer tolerance epStop used for the inner test
unconstrainedConvergedEp(normGrad) == Lt(normGrad, epStop)

unconstrainedConverged2(normGrad) == Lt(normGrad, uoStop)

NonFinite(a) == a[2] = 0

\* One pass of the while loop per unfolding, in the order of the code:
\* minLoop (loop head, f and gradf), minPrecondition (lbfgs), minConverged
\* (the early break), minSearch (line search, NaN test, update of xs, i++).
\* Besides the variables of minimize, m counts the passes that evaluated f and
\* gradf (evals), the line searches (searches), the largest number of trial
\* points of one line search (maxTrials), and records whether an evaluation
\* gave a non-finite energy or gradient component (sawNonFinite), a NaN
\* gradient component (sawNaN), or a NaN energy in a pass that went on to the
\* line search (sawNaNEnergy).  For the energies along the iterates it keeps
\* the first energy evaluated (firstFxs), whether the latest line search ended
\* on a point with both conditions (lastFound), and whether an energy evaluated
\* after an update was not <= the energy before it (rose; roseFound when that
\* update's line search had found its point) or was below it (fell).
RECURSIVE minLoop(_, _, _, _)
RECURSIVE minPrecondition(_, _, _, _, _, _)
RECURSIVE minPreconditioned(_, _, _, _, _)
RECURSIVE minConverged(_, _, _, _, _)
RECURSIVE minSearch(_, _, _, _, _)

\* fxs === NaN || normGrad === NaN, which no number satisfies
nanReachedByEquality(fxs, normGradSq) == FALSE

\* Number.isNaN(fxs) || Number.isNaN(normGrad), normGrad the Euclidean norm of
\* the gradient (NaN exactly when the sum of squares is)
nanReached(fxs, normGradSq) == IsNaN(fxs) \/ IsNaN(normGradSq)

minSearch(prob, w, numSteps, m, ls) ==
  IF nanReached(m.fxs, normListSq(m.gradfxs))
  THEN [m EXCEPT !.t = ls.t, !.searches = @ + 1,
                 !.maxTrials = IF ls.trials > @ THEN ls.trials ELSE @,
                 !.sawNaNEnergy = @ \/ IsNaN(m.fxs),
                 !.lastFound = ls.found,
                 !.failed = TRUE]
  ELSE minLoop(prob, w, numSteps,
         [m EXCEPT !.t = ls.t, !.searches = @ + 1,
                   !.maxTrials = IF ls.trials > @ THEN ls.trials ELSE @,
                   !.sawNaNEnergy = @ \/ IsNaN(m.fxs),
                   !.lastFound = ls.found,
                   !.xs = [j \in DOMAIN m.xs |->
                             Sub(m.xs[j], Mul(ls.t, m.gradientPreconditioned[j]))],
                   !.i = @ + 1])

\* BREAK_EARLY off: the loop runs its whole budget
minNoEarlyBreak(prob, w, numSteps, m, lb) ==
  IF lb.threw THEN [m EXCEPT !.threw = TRUE]
  ELSE minSearch(prob, w, numSteps, m,
                 awLineSearch2(prob, w, m.xs, m.gradientPreconditioned, m.fxs))

minConverged(prob, w, numSteps, m, lb) ==
  IF lb.threw THEN [m EXCEPT !.threw = TRUE]
  ELSE IF unconstrainedConverged2(m.normGradfxs) THEN m
  ELSE minSearch(prob, w, numSteps, m,
                 awLineSearch2(prob, w, m.xs, m.gradientPreconditioned, m.fxs))

minPreconditioned(prob, w, numSteps, m, lb) ==
  minConverged(prob, w, numSteps,
    [m EXCEPT !.newLbfgsInfo = lb.updatedLbfgsInfo,
              !.gradientPreconditioned = lb.gradfxsPreconditioned,
              !.normGradfxs = dot(m.gradfxs, lb.gradfxsPreconditioned)],
    lb)

minPrecondition(prob, w, numSteps, m, fxs, gradfxs) ==
  IF containsNaN(gradfxs)
  THEN [m EXCEPT !.fxs = fxs, !.gradfxs = gradfxs, !.threw = TRUE]
  ELSE minPreconditioned(prob, w, numSteps,
         [m EXCEPT !.fxs = fxs, !.gradfxs = gradfxs, !.evals = @ + 1,
                   !.firstFxs = IF m.evals = 0 THEN fxs ELSE @,
                   !.rose = @ \/ (m.i > 0 /\ ~Le(fxs, m.fxs)),
                   !.roseFound = @ \/ (m.i > 0 /\ m.lastFound /\ ~Le(fxs, m.fxs)),
                   !.fell = @ \/ (m.i > 0 /\ m.lastFound /\ Lt(fxs, m.fxs)),
                   !.sawNonFinite = @ \/ NonFinite(fxs)
                                      \/ \E j \in DOMAIN gradfxs : NonFinite(gradfxs[j]),
                   !.sawNaN = @ \/ \E j \in DOMAIN gradfxs : IsNaN(gradfxs[j])],
         lbfgs(m.xs, gradfxs, m.newLbfgsInfo))

minLoop(prob, w, numSteps, m) ==
  IF ~(m.i < numSteps) THEN m
  ELSE IF containsNaN(m.xs) THEN [m EXCEPT !.threw = TRUE]
  ELSE minPrecondition(prob, w, numSteps, m,
                       Energy(prob, w, m.xs), EnergyGrad(prob, w, m.xs))

OptInfo(m) ==
  [xs |-> m.xs, energyVal |-> m.fxs, normGrad |-> m.normGradfxs,
   newLbfgsInfo |-> m.newLbfgsInfo, gradient |-> m.gradfxs,
   gradientPreconditioned |-> m.gradientPreconditioned, failed |-> m.failed,
   threw |-> m.threw, i |-> m.i, evals |-> m.evals, searches |-> m.searches,
   maxTrials |-> m.maxTrials, sawNonFinite |-> m.sawNonFinite, sawNaN |-> m.sawNaN,
   sawNaNEnergy |-> m.sawNaNEnergy, firstFxs |-> m.firstFxs, lastFound |-> m.lastFound,
   rose |-> m.rose, roseFound |-> m.roseFound, fell |-> m.fell]

\* gradfxs and gradientPreconditioned started as empty lists instead of
\* repeat(xs0.length, 0)
minimizeEmptyGradient(xs0, prob, w, lbfgsInfo, numSteps) ==
  OptInfo(minLoop(prob, w, numSteps,
            [xs |-> xs0, fxs |-> Zero, gradfxs |-> <<>>,
             gradientPreconditioned |-> <<>>,
             normGradfxs |-> Zero, i |-> 0, t |-> <<1, 10000>>, failed |-> FALSE,
             newLbfgsInfo |-> lbfgsInfo, threw |-> FALSE, evals |-> 0,
             searches |-> 0, maxTrials |-> 0, sawNonFinite |-> FALSE,
             sawNaN |-> FALSE, sawNaNEnergy |-> FALSE, firstFxs |-> Zero,
             lastFound |-> FALSE, rose |-> FALSE, roseFound |-> FALSE,
             fell |-> FALSE]))

minimize(xs0, prob, w, lbfgsInfo, numSteps) ==
  OptInfo(minLoop(prob, w, numSteps,
            [xs |-> xs0, fxs |-> Zero, gradfxs |-> repeat(Len(xs0), Zero),
             gradientPreconditioned |-> repeat(Len(xs0), Zero),
             normGradfxs |-> Zero, i |-> 0, t |-> <<1, 10000>>, failed |-> FALSE,
             newLbfgsInfo |-> lbfgsInfo, threw |-> FALSE, evals |-> 0,
             searches |-> 0, maxTrials |-> 0, sawNonFinite |-> FALSE,
             sawNaN |-> FALSE, sawNaNEnergy |-> FALSE, firstFxs |-> Zero,
             lastFound |-> FALSE, rose |-> FALSE, roseFound |-> FALSE,
             fell |-> FALSE]))

(***************************************************************************)
(* The State threaded through step.  Of a State the model keeps            *)
(*   varyingValues, objFns, constrFns,                                     *)
(*   translation: the variable vector last substituted into the shapes,    *)
(*   params: the Params record.  params.compiled stands for the closures   *)
(*     params.objective / params.gradient being defined, params.currWeight *)
(*     for the weight that currObjective / currGradient are bound to.      *)
(***************************************************************************)
Undef == <<>>

MaxInner == 2
MaxEPround == 3
MaxUOround == 2
MaxEdits == 1

\* The problems the caller starts the optimizer on, each with its initial
\* varying values.
InitProblems ==
  { <<EqualProblem, <<Zero, <<5, 1>>>>>>,
    <<EqualsProblem, <<Zero, <<5, 1>>>>>>,
    <<EqualProblem, <<<<4, 125>>, Zero>>>>,
    <<SmallerProblem, <<<<1, 1000>>, Zero>>>>,
    <<MissingProblem, <<Zero, <<5, 1>>>>>> }

EditValues == { NaN, PosInf, Zero }

initParams ==
  [optStatus |-> "NewIter", weight |-> initConstraintWeight, UOround |-> -1,
   EPround |-> -1, lastUOstate |-> Undef, lastUOenergy |-> Undef,
   lastEPstate |-> Undef, lastEPenergy |-> Undef, lastGradient |-> Undef,
   lastGradientPreconditioned |-> Undef, lbfgsInfo |-> defaultLbfgsParams,
   compiled |-> FALSE, currWeight |-> Undef]

initState(prob, xs) ==
  [varyingValues |-> xs, translation |-> xs, objFns |-> prob.objFns,
   constrFns |-> prob.constrFns, params |-> initParams]

\* both changes required to be small (&& for ||)
epConvergedBoth(xs0, xs1, fxs0, fxs1) ==
  /\ Lt(normListSq(subv(xs1, xs0)), Mul(epStop, epStop))
  /\ Lt(Abs(Sub(fxs1, fxs0)), epStop)

epConverged2(xs0, xs1, fxs0, fxs1) ==
  LET stateChangeSq == normListSq(subv(xs1, xs0))
      energyChange == Abs(Sub(fxs1, fxs0))
  IN Lt(stateChangeSq, Mul(epStop, epStop)) \/ Lt(energyChange, epStop)

\* the energy graph left uninterpreted until the first minimization: no name
\* is looked up when the problem is compiled
genOptProblemLazy(st) ==
  [threw |-> FALSE, input |-> st,
   ret |-> [st EXCEPT !.params =
              [st.params EXCEPT
                 !.lastGradient = repeat(Len(st.varyingValues), Zero),
                 !.lastGradientPreconditioned = repeat(Len(st.varyingValues), Zero),
                 !.compiled = TRUE,
                 !.currWeight = initConstraintWeight,
                 !.weight = initConstraintWeight,
                 !.UOround = 0, !.EPround = 0,
                 !.optStatus = "UnconstrainedRunning",
                 !.lbfgsInfo = defaultLbfgsParams]]]

\* the compiled problem started from the origin instead of state.varyingValues
genOptProblemFromOrigin(st) ==
  [genOptProblemLazy(st) EXCEPT
     !.ret.varyingValues = repeat(Len(st.varyingValues), Zero)]

\* applyFn throws for a name without dictionary entry while the energy graph
\* is interpreted
genOptProblem(st) ==
  LET xs == st.varyingValues
      named == {st.objFns[k].name : k \in DOMAIN st.objFns}
                 \cup {st.constrFns[k].name : k \in DOMAIN st.constrFns}
      newParams ==
        [st.params EXCEPT !.lastGradient = repeat(Len(xs), Zero),
                          !.lastGradientPreconditioned = repeat(Len(xs), Zero),
                          !.compiled = TRUE,
                          !.currWeight = initConstraintWeight,
                          !.weight = initConstraintWeight,
                          !.UOround = 0, !.EPround = 0,
                          !.optStatus = "UnconstrainedRunning",
                          !.lbfgsInfo = defaultLbfgsParams]
  IN IF named \subseteq DictNames
     THEN [threw |-> FALSE, ret |-> [st EXCEPT !.params = newParams], input |-> st]
     ELSE [threw |-> TRUE, ret |-> st, input |-> st]

\* lines 364-382: the new variables are substituted into the translation of
\* the returned state and become its varyingValues
evaluateShapes(evaluate, newState, xs) ==
  IF evaluate THEN [newState EXCEPT !.translation = xs, !.varyingValues = xs]
  ELSE newState

NoRun ==
  [failed |-> FALSE, i |-> 0, evals |-> 0, searches |-> 0, maxTrials |-> 0,
   sawNonFinite |-> FALSE, sawNaN |-> FALSE, sawNaNEnergy |-> FALSE,
   firstFxs |-> Zero, lastFound |-> FALSE, rose |-> FALSE, roseFound |-> FALSE,
   fell |-> FALSE]

\* the compiled case without lbfgsInfo: defaultLbfgsParams
stepNewIterKeepMemory(st) ==
  IF ~st.params.compiled THEN genOptProblem(st)
  ELSE [threw |-> FALSE, input |-> st,
        ret |-> [st EXCEPT !.params =
                   [st.params EXCEPT !.weight = initConstraintWeight,
                                     !.UOround = 0, !.EPround = 0,
                                     !.optStatus = "UnconstrainedRunning"]]]

\* case "NewIter"
stepNewIter(st) ==
  IF ~st.params.compiled THEN genOptProblem(st)
  ELSE [threw |-> FALSE, input |-> st,
        ret |-> [st EXCEPT !.params =
                   [st.params EXCEPT !.weight = initConstraintWeight,
                                     !.UOround = 0, !.EPround = 0,
                                     !.optStatus = "UnconstrainedRunning",
                                     !.lbfgsInfo = defaultLbfgsParams]]]

\* optParams.optStatus = "Error" replaced by the status of a finished run
errorParamsConverged(p) == [p EXCEPT !.optStatus = "EPConverged"]

\* optParams.optStatus = "Error" left out
errorParamsRunning(p) == p

\* if (failed): optParams.optStatus = "Error"
errorParams(p) == [p EXCEPT !.optStatus = "Error"]

\* the converged run handing its L-BFGS memory on: optParams.lbfgsInfo =
\* defaultLbfgsParams left out
stepRunningKeepMemory(st, evaluate, res) ==
  LET p1 == [st.params EXCEPT !.lastUOstate = res.xs,
                              !.lastUOenergy = res.energyVal,
                              !.UOround = @ + 1,
                              !.lbfgsInfo = res.newLbfgsInfo,
                              !.lastGradient = res.gradient,
                              !.lastGradientPreconditioned = res.gradientPreconditioned]
      p2 == IF unconstrainedConverged2(res.normGrad)
            THEN [p1 EXCEPT !.optStatus = "UnconstrainedConverged"]
            ELSE [p1 EXCEPT !.optStatus = "UnconstrainedRunning"]
      p3 == errorParams(p2)
  IN IF res.threw THEN [threw |-> TRUE, ret |-> st, input |-> st, run |-> res]
     ELSE IF res.failed
     THEN [threw |-> FALSE, run |-> res,
           input |-> [st EXCEPT !.params = p3],
           ret |-> [st EXCEPT !.params = p3]]
     ELSE [threw |-> FALSE, run |-> res,
           input |-> [st EXCEPT !.params = p2],
           ret |-> evaluateShapes(evaluate, [st EXCEPT !.params = p2], res.xs)]

\* case "UnconstrainedRunning".  optParams is state.params itself (newState is
\* a shallow copy of state), so the assignments to it show in the input state
\* as well as in the returned one.
\* the failed run falling through to the evaluation of the shapes instead of
\* return newState
stepRunningFailedEvaluates(st, evaluate, res) ==
  LET p1 == [st.params EXCEPT !.lastUOstate = res.xs,
                              !.lastUOenergy = res.energyVal,
                              !.UOround = @ + 1,
                              !.lbfgsInfo = res.newLbfgsInfo,
                              !.lastGradient = res.gradient,
                              !.lastGradientPreconditioned = res.gradientPreconditioned]
      p2 == IF unconstrainedConverged2(res.normGrad)
            THEN [p1 EXCEPT !.optStatus = "UnconstrainedConverged",
                            !.lbfgsInfo = defaultLbfgsParams]
            ELSE [p1 EXCEPT !.optStatus = "UnconstrainedRunning"]
      p3 == IF res.failed THEN errorParams(p2) ELSE p2
  IN IF res.threw THEN [threw |-> TRUE, ret |-> st, input |-> st, run |-> res]
     ELSE [threw |-> FALSE, run |-> res,
           input |-> [st EXCEPT !.params = p3],
           ret |-> evaluateShapes(evaluate, [st EXCEPT !.params = p3], res.xs)]

stepRunningWith(st, evaluate, res) ==
  LET p1 == [st.params EXCEPT !.lastUOstate = res.xs,
                              !.lastUOenergy = res.energyVal,
                              !.UOround = @ + 1,
                              !.lbfgsInfo = res.newLbfgsInfo,
                              !.lastGradient = res.gradient,
                              !.lastGradientPreconditioned = res.gradientPreconditioned]
      p2 == IF unconstrainedConverged2(res.normGrad)
            THEN [p1 EXCEPT !.optStatus = "UnconstrainedConverged",
                            !.lbfgsInfo = defaultLbfgsParams]
            ELSE [p1 EXCEPT !.optStatus = "UnconstrainedRunning"]
      p3 == errorParams(p2)
  IN IF res.threw THEN [threw |-> TRUE, ret |-> st, input |-> st, run |-> res]
     ELSE IF res.failed
     THEN [threw |-> FALSE, run |-> res,
           input |-> [st EXCEPT !.params = p3],
           ret |-> [st EXCEPT !.params = p3]]
     ELSE [threw |-> FALSE, run |-> res,
           input |-> [st EXCEPT !.params = p2],
           ret |-> evaluateShapes(evaluate, [st EXCEPT !.params = p2], res.xs)]

stepRunning(st, steps, evaluate) ==
  stepRunningWith(st, evaluate,
    minimize(st.varyingValues, st, st.params.currWeight, st.params.lbfgsInfo, steps))

\* the weight added to itself growth-factor times over, less once
growWeightShort(weight) == Mul(<<weightGrowthFactor - 1, 1>>, weight)

\* weightGrowthFactor * weight
growWeight(weight) == Mul(<<weightGrowthFactor, 1>>, weight)

\* optParams.EPround > 0: the check between the first two converged states
forcedRoundsOne(p) == p.EPround > 0

\* optParams.EPround > 1: "We force EP to run at least two rounds"
forcedRounds(p) == p.EPround > 1

\* the next round started without optParams.UOround = 0
stepConvergedKeepRound(st, evaluate) ==
  LET p == st.params
      p1 == IF forcedRounds(p)
               /\ epConverged2(p.lastEPstate, p.lastUOstate,
                               p.lastEPenergy, p.lastUOenergy)
            THEN [p EXCEPT !.optStatus = "EPConverged"]
            ELSE [p EXCEPT !.optStatus = "UnconstrainedRunning",
                           !.weight = growWeight(p.weight),
                           !.EPround = @ + 1,
                           !.currWeight = growWeight(p.weight)]
      p2 == [p1 EXCEPT !.lastEPstate = p1.lastUOstate,
                       !.lastEPenergy = p1.lastUOenergy]
  IN [threw |-> FALSE,
      input |-> [st EXCEPT !.params = p2],
      ret |-> evaluateShapes(evaluate, [st EXCEPT !.params = p2], st.varyingValues)]

\* the baseline of the outer test recorded only when a next round starts
stepConvergedBaselineOnRound(st, evaluate) ==
  LET p == st.params
      p1 == IF forcedRounds(p)
               /\ epConverged2(p.lastEPstate, p.lastUOstate,
                               p.lastEPenergy, p.lastUOenergy)
            THEN [p EXCEPT !.optStatus = "EPConverged"]
            ELSE [p EXCEPT !.optStatus = "UnconstrainedRunning",
                           !.weight = growWeight(p.weight),
                           !.EPround = @ + 1,
                           !.UOround = 0,
                           !.currWeight = growWeight(p.weight),
                           !.lastEPstate = p.lastUOstate,
                           !.lastEPenergy = p.lastUOenergy]
  IN [threw |-> FALSE,
      input |-> [st EXCEPT !.params = p1],
      ret |-> evaluateShapes(evaluate, [st EXCEPT !.params = p1], st.varyingValues)]

\* the converged case running one inner iteration on the state it made
stepConvergedThenRun(st, evaluate) ==
  stepRunning(stepConvergedKeepRound(st, evaluate).ret, 1, evaluate)

\* case "UnconstrainedConverged"; optParams aliases state.params here too
stepConverged(st, evaluate) ==
  LET p == st.params
      p1 == IF forcedRounds(p)
               /\ epConverged2(p.lastEPstate, p.lastUOstate,
                               p.lastEPenergy, p.lastUOenergy)
            THEN [p EXCEPT !.optStatus = "EPConverged"]
            ELSE [p EXCEPT !.optStatus = "UnconstrainedRunning",
                           !.weight = growWeight(p.weight),
                           !.EPround = @ + 1,
                           !.UOround = 0,
                           !.currWeight = growWeight(p.weight)]
      p2 == [p1 EXCEPT !.lastEPstate = p1.lastUOstate,
                       !.lastEPenergy = p1.lastUOenergy]
  IN [threw |-> FALSE,
      input |-> [st EXCEPT !.params = p2],
      ret |-> evaluateShapes(evaluate, [st EXCEPT !.params = p2], st.varyingValues)]

\* the terminal cases handing the state back for a new run
stepTerminalRestart(st) ==
  [threw |-> FALSE, input |-> st, ret |-> [st EXCEPT !.params.optStatus = "NewIter"]]

\* cases "EPConverged" and "Error": return state
stepTerminal(st) == [threw |-> FALSE, input |-> st, ret |-> st]

\* step(state, steps, evaluate): ret is the returned State, input the State
\* object that was passed in as it reads after the call, threw whether the call
\* raised instead of returning, run the statistics of minimize
step(st, steps, evaluate) ==
  LET optStatus == st.params.optStatus
  IN IF optStatus = "NewIter" THEN stepNewIter(st) @@ [run |-> NoRun]
     ELSE IF optStatus = "UnconstrainedRunning" THEN stepRunning(st, steps, evaluate)
     ELSE IF optStatus = "UnconstrainedConverged"
       THEN stepConverged(st, evaluate) @@ [run |-> NoRun]
     ELSE stepTerminal(st) @@ [run |-> NoRun]

(***************************************************************************)
(* The caller: it holds one State (state), passes it to step and keeps the *)
(* returned State; it may overwrite one of the variables between calls.    *)
(*   arg   the State object passed to the latest call, read after the call *)
(*   last  what the latest operation was and what it did                   *)
(*   edits the number of variables the caller overwrote                    *)
(*   phases the number of unconstrained phases completed, that is of step  *)
(*         calls that took an UnconstrainedRunning state to                *)
(*         UnconstrainedConverged                                          *)
(***************************************************************************)
VARIABLES state, arg, last, edits, phases

vars == <<state, arg, last, edits, phases>>

Init ==
  /\ \E p \in InitProblems : state = initState(p[1], p[2])
  /\ arg = state
  /\ last = [op |-> "init", status |-> "NewIter", steps |-> 0, evaluate |-> TRUE,
             threw |-> FALSE, run |-> NoRun]
  /\ edits = 0
  /\ phases = 0

Step(steps, evaluate) ==
  /\ state.params.optStatus = "UnconstrainedConverged" => state.params.EPround < MaxEPround
  /\ state.params.optStatus = "UnconstrainedRunning" => state.params.UOround < MaxUOround
  /\ \E r \in {step(state, steps, evaluate)} :
        /\ state' = IF r.threw THEN state ELSE r.ret
        /\ arg' = r.input
        /\ last' = [op |-> "step", status |-> state.params.optStatus, steps |-> steps,
                    evaluate |-> evaluate, threw |-> r.threw,
                    run |-> [k \in DOMAIN NoRun |-> r.run[k]]]
        /\ phases' = IF /\ ~r.threw
                        /\ state.params.optStatus = "UnconstrainedRunning"
                        /\ r.ret.params.optStatus = "UnconstrainedConverged"
                     THEN phases + 1 ELSE phases
  /\ UNCHANGED edits

SetVarying(v) ==
  /\ edits < MaxEdits
  /\ state' = [state EXCEPT !.varyingValues[1] = v]
  /\ last' = [op |-> "edit", status |-> state.params.optStatus, steps |-> 0,
              evaluate |-> TRUE, threw |-> FALSE, run |-> NoRun]
  /\ edits' = edits + 1
  /\ UNCHANGED <<arg, phases>>

Next ==
  \/ \E steps \in 0..MaxInner : Step(steps, TRUE)
  \/ \E v \in EditValues : SetVarying(v)

Spec == Init /\ [][Next]_vars

(***************************************************************************)
(* Properties of step.  In the state after a Step action, last.status is   *)
(* the status of the state passed to step and state the state returned.    *)
(***************************************************************************)
Returned == last.op = "step" /\ ~last.threw

Terminal == {"EPConverged", "Error"}

AllowedTransitions ==
  { <<"NewIter", "UnconstrainedRunning">>,
    <<"UnconstrainedRunning", "UnconstrainedRunning">>,
    <<"UnconstrainedRunning", "UnconstrainedConverged">>,
    <<"UnconstrainedRunning", "Error">>,
    <<"UnconstrainedConverged", "UnconstrainedRunning">>,
    <<"UnconstrainedConverged", "EPConverged">>,
    <<"EPConverged", "EPConverged">>,
    <<"Error", "Error">> }

\* C1: the status step returns is restricted by the status it was given:
\* NewIter -> UnconstrainedRunning; UnconstrainedRunning -> UnconstrainedRunning,
\* UnconstrainedConverged or Error; UnconstrainedConverged ->
\* UnconstrainedRunning or EPConverged; EPConverged -> EPConverged; Error ->
\* Error.  So Error is entered only from UnconstrainedRunning, EPConverged only
\* from UnconstrainedConverged, and nothing leads back to NewIter.
StatusTransitions ==
  Returned => <<last.status, state.params.optStatus>> \in AllowedTransitions

\* a run that ended in Error, entered from UnconstrainedRunning
ErrorEntered ==
  /\ Returned
  /\ last.status = "UnconstrainedRunning"
  /\ state.params.optStatus = "Error"

\* C2: step on an EPConverged or Error state returns the state it was given,
\* with the same status, varyingValues and params, whatever the budget and
\* however often it is called; an Error status stays.
TerminalNoOp ==
  [][last'.op = "step" /\ state.params.optStatus \in Terminal
       => ~last'.threw /\ state' = state]_vars

\* step was called with the full budget on an Error state whose variables the
\* caller had overwritten
TerminalStepped ==
  /\ Returned
  /\ last.status = "Error"
  /\ last.steps = MaxInner
  /\ state.params.optStatus = "Error"
  /\ edits > 0
  /\ state.varyingValues # state.translation

HasNaN(v) == \E j \in DOMAIN v : IsNaN(v[j])

RunningStepped == Returned /\ last.status = "UnconstrainedRunning"

InputUnchanged == [][last'.op = "step" => arg' = state]_vars

\* C6: after the NewIter step the weight never decreases, and from one state
\* to the next it stays or is multiplied by the growth factor 10.
WeightGrowth ==
  [][state.params.optStatus # "NewIter"
       => /\ Le(state.params.weight, state'.params.weight)
          /\ \/ state'.params.weight = state.params.weight
             \/ state'.params.weight
                  = Mul(<<weightGrowthFactor, 1>>, state.params.weight)]_vars

\* the weight has grown twice
WeightGrown ==
  /\ Returned
  /\ last.status = "UnconstrainedConverged"
  /\ state.params.weight
       = Mul(<<weightGrowthFactor * weightGrowthFactor, 1>>, initConstraintWeight)

\* the outer test on the params of an UnconstrainedConverged state: the norm
\* of lastUOstate - lastEPstate, or the distance of the two energies, is below
\* 1e-3
OuterTestPasses(p) ==
  \/ Lt(normListSq(subv(p.lastUOstate, p.lastEPstate)), <<1, 1000000>>)
  \/ Lt(Abs(Sub(p.lastUOenergy, p.lastEPenergy)), <<1, 1000>>)

\* C7 as stated, the round condition read as the claim reads it (two
\* unconstrained phases completed): step on an UnconstrainedConverged state
\* returns EPConverged exactly if two phases have completed and the outer test
\* passes.
ConvergedAfterTwoPhases ==
  [][last'.op = "step" /\ state.params.optStatus = "UnconstrainedConverged"
       => (state'.params.optStatus = "EPConverged"
             <=> phases >= 2 /\ OuterTestPasses(state.params))]_vars

\* C7: step on an UnconstrainedConverged state returns EPConverged exactly if
\* EPround exceeds 1 and the outer test passes; EPround is one less than the
\* number of completed unconstrained phases there, so EPConverged is entered
\* only once three phases have completed.
ConvergedAfterThreePhases ==
  [][last'.op = "step" /\ state.params.optStatus = "UnconstrainedConverged"
       => /\ ~last'.threw
          /\ phases = state.params.EPround + 1
          /\ state'.params.optStatus = "EPConverged"
               <=> state.params.EPround > 1 /\ OuterTestPasses(state.params)
          /\ state'.params.optStatus = "EPConverged" => phases' >= 3]_vars

\* EPConverged entered when the third unconstrained phase had completed
ThirdPhaseConverged ==
  /\ Returned
  /\ last.status = "UnconstrainedConverged"
  /\ state.params.optStatus = "EPConverged"
  /\ phases = 3

\* C8 as stated: without constraint terms at most one weight increase happens
\* between the first UnconstrainedConverged state and EPConverged (every
\* increase of a run happens in a step on an UnconstrainedConverged state, and
\* EPround counts them).
OneRoundWithoutConstraints ==
  state.params.optStatus = "EPConverged" /\ state.constrFns = <<>>
    => state.params.EPround <= 1

\* C8: without constraint terms EPConverged is reached after two outer rounds
\* at the earliest: at least two weight increases happen between the first
\* UnconstrainedConverged state and EPConverged, each by the growth factor.
TwoRoundsWithoutConstraints ==
  state.params.optStatus = "EPConverged" /\ state.constrFns = <<>>
    => /\ state.params.EPround >= 2
       /\ Ge(state.params.weight,
             Mul(<<weightGrowthFactor * weightGrowthFactor, 1>>, initConstraintWeight))

\* a problem without constraints, left to itself, in EPConverged after exactly
\* two weight increases
ConvergedInTwoRounds ==
  /\ state.params.optStatus = "EPConverged"
  /\ state.constrFns = <<>>
  /\ edits = 0
  /\ state.params.EPround = 2
  /\ state.params.weight
       = Mul(<<weightGrowthFactor * weightGrowthFactor, 1>>, initConstraintWeight)

\* C9: a step does bounded work: an UnconstrainedRunning step makes at most
\* as many inner iterations (evaluations, line searches, updates of the
\* variables) as its budget, a line search tries at most maxSteps + 1 = 11
\* points, and the steps on other states make no inner iteration.
BoundedWork ==
  last.op = "step"
    => /\ last.run.evals <= last.steps
       /\ last.run.searches <= last.run.evals
       /\ last.run.i <= last.run.searches
       /\ last.run.maxTrials <= maxSteps + 1
       /\ last.status # "UnconstrainedRunning" => last.run = NoRun

\* a step that used its whole budget, each inner iteration with a line search
BudgetUsed ==
  /\ RunningStepped
  /\ last.steps = MaxInner
  /\ last.run.i = last.steps
  /\ last.run.maxTrials > 1

EndedOnUpdate ==
  /\ last.op = "step" /\ ~last.threw
  /\ last.status = "UnconstrainedRunning"
  /\ last.steps >= 1
  /\ last.run.i = last.steps

MaxCalls == 3

MemSizes == {0, 1, MemSize}

StepLengths == { <<1, 2>>, <<1, 4>>, <<1, 8>> }

LbfgsProblems ==
  { <<EqualProblem, <<Zero, <<5, 1>>>>>>,
    <<EqualsProblem, <<Zero, <<5, 1>>>>>>,
    <<EqualProblem, <<<<3, 1>>, <<-1, 1>>>>>> }

LbfgsInit ==
  /\ \E p \in LbfgsProblems : \E m \in MemSizes :
       state = [initState(p[1], p[2]) EXCEPT !.params.lbfgsInfo.memSize = m]
  /\ arg = state
  /\ last = [op |-> "init", threw |-> FALSE, numUnconstrSteps |-> 0,
             gradfxs |-> Undef, gradfxsPreconditioned |-> Undef]
  /\ edits = 0
  /\ phases = 0

LbfgsCall(t) ==
  /\ phases < MaxCalls
  /\ \E gradfxs \in {EnergyGrad(state, state.params.weight, state.varyingValues)} :
     \E r \in {lbfgs(state.varyingValues, gradfxs, state.params.lbfgsInfo)} :
       /\ state' = IF r.threw THEN state
                   ELSE [state EXCEPT
                           !.params.lbfgsInfo = r.updatedLbfgsInfo,
                           !.varyingValues =
                              subv(@, scalev(t, r.gradfxsPreconditioned))]
       /\ last' = [op |-> "lbfgs", threw |-> r.threw,
                   numUnconstrSteps |-> state.params.lbfgsInfo.numUnconstrSteps,
                   gradfxs |-> gradfxs,
                   gradfxsPreconditioned |-> r.gradfxsPreconditioned]
  /\ phases' = phases + 1
  /\ UNCHANGED <<arg, edits>>

LbfgsNext == \E t \in StepLengths : LbfgsCall(t)

LbfgsSpec == LbfgsInit /\ [][LbfgsNext]_vars

\* C12: with memSize 0 every call of lbfgs, the first and the later ones,
\* returns without failing and its preconditioned gradient is the raw gradient.
MemoryZeroIsGradientDescent ==
  last.op = "lbfgs" /\ state.params.lbfgsInfo.memSize = 0
    => /\ ~last.threw
       /\ last.gradfxsPreconditioned = last.gradfxs

\* an objective or constraint term of the state names a function without
\* dictionary entry
NamesMissing ==
  \/ \E k \in DOMAIN state.objFns : state.objFns[k].name \notin DictNames
  \/ \E k \in DOMAIN state.constrFns : state.constrFns[k].name \notin DictNames

\* C13: a term naming a function without dictionary entry makes the NewIter
\* step raise, with no inner iteration run and the variables as they were; the
\* state never leaves NewIter, and no step on an UnconstrainedRunning or
\* UnconstrainedConverged state raises for it.
MissingRaisedAtCompile ==
  /\ NamesMissing => /\ state.params.optStatus = "NewIter"
                     /\ state.params.lastUOstate = Undef
  /\ NamesMissing /\ last.op = "step"
       => /\ last.threw
          /\ last.status = "NewIter"
          /\ last.run = NoRun
          /\ arg = state
  /\ last.op = "step" /\ last.threw => last.status = "NewIter" /\ NamesMissing

\* the NewIter step on a problem with a missing function raised
MissingRaised ==
  /\ NamesMissing
  /\ last.op = "step"
  /\ last.threw
  /\ last.status = "NewIter"

\* C14: the state returned by the NewIter step, and the state genOptProblem
\* makes of any state it compiles, has the varyingValues of the state passed
\* in, element for element; the step returns it as UnconstrainedRunning with
\* no unconstrained round taken.
InitKeepsVariables ==
  [][/\ last'.op = "step" /\ state.params.optStatus = "NewIter" /\ ~last'.threw
         => /\ state'.varyingValues = state.varyingValues
            /\ Len(state'.varyingValues) = Len(state.varyingValues)
            /\ state'.params.optStatus = "UnconstrainedRunning"
            /\ state'.params.UOround = 0
            /\ last'.run.evals = 0
     /\ \A r \in {genOptProblem(state)} :
           ~r.threw => r.ret.varyingValues = state.varyingValues]_vars

\* the NewIter step returned the compiled problem for the variables [0, 5]
InitStepped ==
  /\ last.op = "step"
  /\ last.status = "NewIter"
  /\ ~last.threw
  /\ state.params.optStatus = "UnconstrainedRunning"
  /\ state.varyingValues = <<Zero, <<5, 1>>>>

\* the length of the initial variable vector of the problem the state is for
InitialLength ==
  CHOOSE n \in {Len(p[2]) : p \in {q \in InitProblems :
                                     /\ q[1].objFns = state.objFns
                                     /\ q[1].constrFns = state.constrFns}} : TRUE

\* C15: in every reachable state varyingValues has the length of the initial
\* variable vector, and so have the gradient and preconditioned gradient once
\* the problem is compiled, lastUOstate once an unconstrained step has
\* returned, and lastEPstate once a converged step has returned.
LengthsKept ==
  /\ Len(state.varyingValues) = InitialLength
  /\ Len(arg.varyingValues) = InitialLength
  /\ state.params.optStatus # "NewIter"
       => /\ Len(state.params.lastGradient) = InitialLength
          /\ Len(state.params.lastGradientPreconditioned) = InitialLength
  /\ state.params.lastUOstate # Undef
       => Len(state.params.lastUOstate) = InitialLength
  /\ state.params.lastEPstate # Undef
       => Len(state.params.lastEPstate) = InitialLength
  /\ Returned /\ last.status = "UnconstrainedRunning"
       => Len(state.params.lastUOstate) = InitialLength
  /\ Returned /\ last.status = "UnconstrainedConverged"
       => Len(state.params.lastEPstate) = InitialLength

\* a second outer round has run: every recorded vector is set, and the
\* variables have moved from the initial vector
AllVectorsRecorded ==
  /\ Returned
  /\ last.status = "UnconstrainedRunning"
  /\ last.run.searches >= 1
  /\ state.params.EPround >= 1
  /\ state.params.lastEPstate # Undef
  /\ state.params.lastUOstate # state.params.lastEPstate

(***************************************************************************)
(* awLineSearch2 (part_001, 389-529) on its own: state is the problem at   *)
(* the point xs0, arg the arguments of the call (the direction is the      *)
(* gradient at xs0 times a factor, as a preconditioner would scale it; a   *)
(* negative factor gives a direction of ascent), last the result of the    *)
(* call.                                                                   *)
(***************************************************************************)
MaxCoordinate == 12

LineSearchPoints ==
  { <<SquareProblem, <<<<n, 1>>>>>> : n \in (-MaxCoordinate..MaxCoordinate) \ {0} }
    \cup { <<SquareProblem2, <<<<n, 1>>, <<3, 1>>>>>> : n \in 0..MaxCoordinate }

DirectionScales == { One, Two, <<1, 2>>, <<1, 32>>, <<-1, 1>> }

LineSearchInit ==
  /\ \E p \in LineSearchPoints : \E k \in DirectionScales :
       /\ state = initState(p[1], p[2])
       /\ arg = [xs0 |-> p[2],
                 gradfxs0 |-> scalev(k, EnergyGrad(p[1], initConstraintWeight, p[2])),
                 fxs0 |-> Energy(p[1], initConstraintWeight, p[2])]
  /\ last = [op |-> "init"]
  /\ edits = 0
  /\ phases = 0

LineSearch ==
  /\ last.op = "init"
  /\ last' = [op |-> "awLineSearch2"]
               @@ awLineSearch2(state, state.params.weight, arg.xs0, arg.gradfxs0, arg.fxs0)
  /\ UNCHANGED <<state, arg, edits, phases>>

LineSearchNext == LineSearch

LineSearchSpec == LineSearchInit /\ [][LineSearchNext]_vars

\* the point x0 + t * d the line search returned, its energy, and the slope
\* of the energy along d at x0 and at the returned point
lsDir == negv(arg.gradfxs0)
lsPoint == addv(arg.xs0, scalev(last.t, lsDir))
lsSlope(xs) == dot(lsDir, EnergyGrad(state, state.params.weight, xs))

\* C16: for f(x) = x^T x the step length t the line search returns along a
\* scaled negative gradient d, at x0 = [10] with d = -[20] in particular,
\* was found by the search and satisfies
\*   f(x0 + t d) <= f(x0) + c1 t <d, grad f(x0)>       (Armijo, c1 = 0.001)
\*   <d, grad f(x0 + t d)> >= c2 <d, grad f(x0)>       (weak Wolfe, c2 = 0.9)
\* and f(x0 + t d) < f(x0).
LineSearchConditions ==
  last.op = "awLineSearch2"
       /\ Lt(lsSlope(arg.xs0), Zero)
    => /\ last.found
       /\ Le(Energy(state, state.params.weight, lsPoint),
              Add(arg.fxs0, Mul(Mul(c1, last.t), lsSlope(arg.xs0))))
       /\ Ge(lsSlope(lsPoint), Mul(c2, lsSlope(arg.xs0)))
       /\ Lt(Energy(state, state.params.weight, lsPoint), arg.fxs0)
       /\ arg.xs0 = <<<<10, 1>>>> /\ arg.gradfxs0 = <<<<20, 1>>>> => last.t = <<1, 2>>

\* the search at x0 = [10] along -[20] has returned, after the trial t = 1
\* failed the Armijo condition
LineSearchReturned ==
  /\ last.op = "awLineSearch2"
  /\ state.objFns = SquareProblem.objFns
  /\ arg.xs0 = <<<<10, 1>>>>
  /\ arg.gradfxs0 = <<<<20, 1>>>>
  /\ arg.fxs0 = <<100, 1>>
  /\ last.trials = 2

\* <gradient, preconditionedGradient> of the vectors the step recorded: those
\* of the last inner iteration the call executed, or the zero vectors minimize
\* starts from when the call executed none (a budget of 0)
GradientMetric ==
  dot(state.params.lastGradient, state.params.lastGradientPreconditioned)

\* C17: a step on an UnconstrainedRunning state that returns without a failed
\* run returns UnconstrainedConverged if the metric <gradient,
\* preconditionedGradient> of the last executed inner iteration is below 1e-2
\* and UnconstrainedRunning if it is not.
InnerConvergenceTest ==
  RunningStepped /\ ~last.run.failed
    => /\ state.params.optStatus \in {"UnconstrainedConverged", "UnconstrainedRunning"}
       /\ state.params.optStatus = "UnconstrainedConverged"
            <=> Lt(GradientMetric, <<1, 100>>)

\* a step that executed an iteration whose metric is positive and below the
\* tolerance, and returned UnconstrainedConverged
SmallMetricConverged ==
  /\ RunningStepped
  /\ ~last.run.failed
  /\ last.run.evals >= 1
  /\ Gt(GradientMetric, Zero)
  /\ state.params.optStatus = "UnconstrainedConverged"

\* C18: a step on an UnconstrainedConverged state that does not return
\* EPConverged returns UnconstrainedRunning with the weight 10 times the
\* weight of the state passed in, EPround one higher, UOround 0, and the
\* current objective and gradient bound to the new weight.
NextRoundStarts ==
  [][last'.op = "step" /\ state.params.optStatus = "UnconstrainedConverged"
       /\ state'.params.optStatus # "EPConverged"
       => /\ ~last'.threw
          /\ state'.params.optStatus = "UnconstrainedRunning"
          /\ state'.params.weight = Mul(<<10, 1>>, state.params.weight)
          /\ state'.params.EPround = state.params.EPround + 1
          /\ state'.params.UOround = 0
          /\ state'.params.currWeight = state'.params.weight]_vars

\* the converged step that started the third round, at weight 1
ThirdRoundStarted ==
  /\ Returned
  /\ last.status = "UnconstrainedConverged"
  /\ state.params.optStatus = "UnconstrainedRunning"
  /\ state.params.EPround = 2
  /\ state.params.UOround = 0
  /\ state.params.weight = One

\* C19: after a step on an UnconstrainedConverged state, on either branch,
\* lastEPstate = lastUOstate and lastEPenergy = lastUOenergy in the returned
\* state, both being the unconstrained result of the state passed in.  The
\* step returns EPConverged exactly if EPround > 1 and the outer test holds
\* between that result and the baseline the state passed in carried; no
\* other operation changes the baseline, so it is the one the
\* UnconstrainedConverged step before recorded.
BaselineRecorded ==
  [][/\ last'.op = "step" /\ state.params.optStatus = "UnconstrainedConverged"
         => /\ ~last'.threw
            /\ state'.params.lastEPstate = state'.params.lastUOstate
            /\ state'.params.lastEPenergy = state'.params.lastUOenergy
            /\ state'.params.lastEPstate = state.params.lastUOstate
            /\ state'.params.lastEPenergy = state.params.lastUOenergy
            /\ state'.params.optStatus = "EPConverged"
                 <=> state.params.EPround > 1 /\ OuterTestPasses(state.params)
     /\ state.params.optStatus # "UnconstrainedConverged"
         => /\ state'.params.lastEPstate = state.params.lastEPstate
            /\ state'.params.lastEPenergy = state.params.lastEPenergy]_vars

\* a converged step of the third round or later returned EPConverged, its
\* result recorded as the new baseline
BaselineCompared ==
  /\ Returned
  /\ last.status = "UnconstrainedConverged"
  /\ state.params.optStatus = "EPConverged"
  /\ state.params.EPround >= 2
  /\ state.params.lastEPstate = state.params.lastUOstate
  /\ state.params.lastEPenergy = state.params.lastUOenergy

\* C20: a step on an UnconstrainedConverged state evaluates neither the
\* energy nor the gradient and runs no line search, and the varyingValues,
\* lastUOstate, lastUOenergy and L-BFGS memory of the returned state are
\* those of the state passed in.
ConvergedStepFrame ==
  [][last'.op = "step" /\ state.params.optStatus = "UnconstrainedConverged"
       => /\ ~last'.threw
          /\ last'.run.evals = 0
          /\ last'.run.searches = 0
          /\ last'.run.i = 0
          /\ state'.varyingValues = state.varyingValues
          /\ state'.params.lastUOstate = state.params.lastUOstate
          /\ state'.params.lastUOenergy = state.params.lastUOenergy
          /\ state'.params.lbfgsInfo = state.params.lbfgsInfo]_vars

\* a converged step returned the next round for the variables [5/2, 5/2]
\* that an unconstrained run had reached from [0, 5]
ConvergedStepReturned ==
  /\ Returned
  /\ last.status = "UnconstrainedConverged"
  /\ last.run.evals = 0
  /\ state.params.optStatus = "UnconstrainedRunning"
  /\ state.params.UOround = 0
  /\ state.varyingValues = state.params.lastUOstate
  /\ state.varyingValues = <<<<5, 2>>, <<5, 2>>>>

(***************************************************************************)
(* A caller that starts a state over: it sets the status of a compiled     *)
(* state back to NewIter (as a resample of the variables does) and goes on *)
(* calling step.  edits counts the resets.                                 *)
(***************************************************************************)
MaxResets == 1

ResetProblems ==
  { <<EqualProblem, <<Zero, <<5, 1>>>>>>,
    <<SmallerProblem, <<<<1, 1000>>, Zero>>>> }

ResetInit ==
  /\ \E p \in ResetProblems : state = initState(p[1], p[2])
  /\ arg = state
  /\ last = [op |-> "init", status |-> "NewIter", steps |-> 0, evaluate |-> TRUE,
             threw |-> FALSE, run |-> NoRun]
  /\ edits = 0
  /\ phases = 0

Reset ==
  /\ edits < MaxResets
  /\ state.params.compiled
  /\ state.params.optStatus # "NewIter"
  /\ state' = [state EXCEPT !.params.optStatus = "NewIter"]
  /\ last' = [op |-> "reset", status |-> state.params.optStatus, steps |-> 0,
              evaluate |-> TRUE, threw |-> FALSE, run |-> NoRun]
  /\ edits' = edits + 1
  /\ UNCHANGED <<arg, phases>>

ResetNext ==
  \/ \E steps \in 0..MaxInner : Step(steps, TRUE)
  \/ Reset

ResetSpec == ResetInit /\ [][ResetNext]_vars

\* C21: a step on a NewIter state, compiled or not, that returns, returns
\* UnconstrainedRunning with the initial constraint weight, EPround 0,
\* UOround 0 and the default L-BFGS memory, runs no inner iteration and leaves
\* varyingValues as they were.
NewIterStarts ==
  [][last'.op = "step" /\ state.params.optStatus = "NewIter" /\ ~last'.threw
       => /\ state'.params.optStatus = "UnconstrainedRunning"
          /\ state'.params.weight = <<1, 100>>
          /\ state'.params.EPround = 0
          /\ state'.params.UOround = 0
          /\ state'.params.lbfgsInfo = defaultLbfgsParams
          /\ last'.run.evals = 0
          /\ last'.run.searches = 0
          /\ state'.varyingValues = state.varyingValues]_vars

\* the NewIter step returned for a state that was compiled, had run with a
\* grown weight, and was reset
CompiledNewIterStepped ==
  /\ Returned
  /\ last.status = "NewIter"
  /\ edits = 1
  /\ state.params.lastEPstate # Undef
  /\ state.params.optStatus = "UnconstrainedRunning"

\* the latest operation was a call of lbfgs after the first of its phase, and
\* it returned
LaterCallReturned ==
  last.op = "lbfgs" /\ last.numUnconstrSteps > 0 /\ ~last.threw

\* the call kept the history: the step count went up by one
HistoryKept ==
  state.params.lbfgsInfo.numUnconstrSteps = last.numUnconstrSteps + 1

\* C22 as stated: a later call of lbfgs returns the two-loop result r and keeps
\* the history only if r . g > 0; otherwise, r . g = 0 included, it returns the
\* raw gradient with the memory reset to step count 1 and empty lists.
DescentCheckStrict ==
  LaterCallReturned
    => /\ HistoryKept => Gt(dot(last.gradfxsPreconditioned, last.gradfxs), Zero)
       /\ ~HistoryKept
            => /\ state.params.lbfgsInfo.numUnconstrSteps = 1
               /\ state.params.lbfgsInfo.s_list = <<>>
               /\ state.params.lbfgsInfo.y_list = <<>>
               /\ last.gradfxsPreconditioned = last.gradfxs

\* the first n elements of a list, or all of it
Front(list, n) == [k \in 1..(IF n < Len(list) THEN n ELSE Len(list)) |-> list[k]]

\* C23: a later call of lbfgs that keeps the history puts the new pair
\* s = x_k - lastState, y = g_k - lastGrad in front of s_list / y_list and
\* keeps the first memSize entries of each; in every memory record the two
\* lists have the same length, which is at most memSize.
PairsPrepended ==
  [][last'.op = "lbfgs" /\ ~last'.threw
       => /\ Len(state'.params.lbfgsInfo.s_list) = Len(state'.params.lbfgsInfo.y_list)
          /\ Len(state'.params.lbfgsInfo.s_list) <= state'.params.lbfgsInfo.memSize
          /\ state'.params.lbfgsInfo.memSize = state.params.lbfgsInfo.memSize
          /\ state.params.lbfgsInfo.numUnconstrSteps > 0
               /\ state'.params.lbfgsInfo.numUnconstrSteps
                     = state.params.lbfgsInfo.numUnconstrSteps + 1
               => /\ state'.params.lbfgsInfo.s_list
                       = Front(<<subv(state.varyingValues,
                                      state.params.lbfgsInfo.lastState.contents)>>
                                 \o state.params.lbfgsInfo.s_list,
                               state.params.lbfgsInfo.memSize)
                  /\ state'.params.lbfgsInfo.y_list
                       = Front(<<subv(last'.gradfxs,
                                      state.params.lbfgsInfo.lastGrad.contents)>>
                                 \o state.params.lbfgsInfo.y_list,
                               state.params.lbfgsInfo.memSize)]_vars

\* the third call with memSize 1 kept the history: the pair of the second
\* call was dropped for the new one
OldestDropped ==
  /\ last.op = "lbfgs"
  /\ ~last.threw
  /\ last.numUnconstrSteps = 2
  /\ state.params.lbfgsInfo.memSize = 1
  /\ state.params.lbfgsInfo.numUnconstrSteps = 3
  /\ Len(state.params.lbfgsInfo.s_list) = 1
  /\ state.params.lbfgsInfo.s_list[1] # <<Zero, Zero>>

\* C24: the first call of lbfgs in a phase (step count 0) returns the raw
\* gradient, with empty lists and step count 1 in the returned memory; and
\* every call that returns, on any branch, returns a memory whose lastState
\* and lastGrad are the state and gradient it was called with.
CurrentPointRecorded ==
  [][last'.op = "lbfgs" /\ ~last'.threw
       => /\ state'.params.lbfgsInfo.lastState
               = [tag |-> "Just", contents |-> state.varyingValues]
          /\ state'.params.lbfgsInfo.lastGrad
               = [tag |-> "Just", contents |-> last'.gradfxs]
          /\ last'.gradfxs
               = EnergyGrad(state, state.params.weight, state.varyingValues)
          /\ state.params.lbfgsInfo.numUnconstrSteps = 0
               => /\ last'.gradfxsPreconditioned = last'.gradfxs
                  /\ state'.params.lbfgsInfo.s_list = <<>>
                  /\ state'.params.lbfgsInfo.y_list = <<>>
                  /\ state'.params.lbfgsInfo.numUnconstrSteps = 1]_vars

\* a later call returned a direction that is not the raw gradient, with the
\* point it was called at recorded
PreconditionedReturned ==
  /\ last.op = "lbfgs"
  /\ ~last.threw
  /\ last.numUnconstrSteps >= 1
  /\ last.gradfxsPreconditioned # last.gradfxs
  /\ state.params.lbfgsInfo.numUnconstrSteps >= 2
  /\ state.params.lbfgsInfo.lastGrad.contents = last.gradfxs

\* C25: an unconstrained phase starts with the default L-BFGS memory (step
\* count 0, no pairs, no last state): in every UnconstrainedRunning state with
\* UOround 0, which is what the NewIter step and the step that raises the
\* weight return, and in every UnconstrainedConverged state.  Within a phase
\* the memory is handed on: after a step that ran an iteration and returned
\* UnconstrainedRunning the memory holds the gradient of its last iteration,
\* and a step that runs no iteration leaves the memory as it was.
MemoryFreshPerPhase ==
  [][/\ state'.params.optStatus = "UnconstrainedRunning" /\ state'.params.UOround = 0
         => state'.params.lbfgsInfo = defaultLbfgsParams
     /\ state'.params.optStatus = "UnconstrainedConverged"
         => state'.params.lbfgsInfo = defaultLbfgsParams
     /\ state.params.optStatus = "UnconstrainedConverged"
         => state'.params.lbfgsInfo = state.params.lbfgsInfo
     /\ last'.op = "step" /\ ~last'.threw
           /\ state.params.optStatus = "UnconstrainedRunning"
           /\ state'.params.optStatus = "UnconstrainedRunning"
         => IF last'.run.evals >= 1
            THEN /\ state'.params.lbfgsInfo.numUnconstrSteps >= 1
                 /\ state'.params.lbfgsInfo.lastGrad
                      = [tag |-> "Just", contents |-> state'.params.lastGradient]
            ELSE state'.params.lbfgsInfo = state.params.lbfgsInfo]_vars

\* the second phase of the constrained problem is about to start, with the
\* weight raised, the variables moved by the first phase and the memory of
\* the first phase gone
SecondPhaseFresh ==
  /\ Returned
  /\ last.status = "UnconstrainedConverged"
  /\ state.params.optStatus = "UnconstrainedRunning"
  /\ state.constrFns # <<>>
  /\ state.params.EPround = 1
  /\ state.params.UOround = 0
  /\ edits = 0
  /\ state.varyingValues # <<<<1, 1000>>, Zero>>
  /\ state.params.lbfgsInfo = defaultLbfgsParams

\* the Armijo and the weak Wolfe condition of the call at the step length t
lsAt(t) == addv(arg.xs0, scalev(t, lsDir))
lsArmijoAt(t) ==
  Le(Energy(state, state.params.weight, lsAt(t)),
     Add(arg.fxs0, Mul(Mul(<<1, 1000>>, t), lsSlope(arg.xs0))))
lsWolfeAt(t) == Ge(lsSlope(lsAt(t)), Mul(<<9, 10>>, lsSlope(arg.xs0)))

\* C26: the search starts from a = 0, b = +infinity, t = 1.  A trial failing
\* Armijo becomes b, a trial with Armijo but not weak Wolfe becomes a, a trial
\* with both is returned; so on return a is 0 or a point with Armijo and
\* without Wolfe, b is +infinity or a point without Armijo.  After a bracket
\* update the trial is (a+b)/2 for finite b and 2a otherwise.  A search that
\* stops on the limit (more than 10 updates, or |b - a| < 1e-9) returns that
\* trial untested.
LineSearchBracket ==
  last.op = "awLineSearch2"
    => /\ last.a = Zero \/ (lsArmijoAt(last.a) /\ ~lsWolfeAt(last.a))
       /\ last.b = PosInf \/ ~lsArmijoAt(last.b)
       /\ last.i = 0 => last.t = One /\ last.a = Zero /\ last.b = PosInf
       /\ last.i > 0 => last.t = IF Lt(last.b, PosInf)
                                 THEN Div(Add(last.a, last.b), Two)
                                 ELSE Mul(Two, last.a)
       /\ last.found => /\ lsArmijoAt(last.t) /\ lsWolfeAt(last.t)
                        /\ last.trials = last.i + 1
       /\ ~last.found => /\ \/ last.i > 10
                             \/ Lt(Abs(Sub(last.b, last.a)), <<1, 1000000000>>)
                         /\ last.trials = last.i

\* a search along a direction of ascent: every trial failed Armijo, the
\* bracket shrank to [0, 2^-10] and the untested midpoint 2^-11 was returned
LimitReached ==
  /\ last.op = "awLineSearch2"
  /\ ~last.found
  /\ last.trials = 11
  /\ last.a = Zero
  /\ last.b = <<1, 1024>>
  /\ last.t = <<1, 2048>>
  /\ ~lsArmijoAt(last.t)

\* penalty weights of the first rounds, next to the weight of the state
PenaltyWeights ==
  { initConstraintWeight, <<1, 10>>, One, <<10, 1>> } \cup { state.params.weight }

\* C27: the compiled energy at the variables of the state is
\* objEnergy + constrEnergy * 1e5 * penaltyWeight for every penalty weight,
\* objEnergy the sum of the objective terms and constrEnergy the sum of the
\* squared positive parts of the constraint terms; a problem without
\* constraint terms has the same energy for every weight.
EnergyFormula ==
  LET xs == state.varyingValues
      objEnergy == SumSeq([k \in 1..Len(state.objFns) |->
                             applyFn(state.objFns[k], xs)])
      constrEnergy == SumSeq([k \in 1..Len(state.constrFns) |->
                                toPenalty(applyFn(state.constrFns[k], xs))])
  IN state.params.compiled
       => /\ \A w \in PenaltyWeights :
               Energy(state, w, xs)
                 = Add(objEnergy, Mul(Mul(constrEnergy, <<100000, 1>>), w))
          /\ state.constrFns = <<>>
               => \A w \in PenaltyWeights :
                    /\ Energy(state, w, xs) = objEnergy
                    /\ Energy(state, w, xs) = Energy(state, initConstraintWeight, xs)

\* a problem without constraints at a point of non-zero energy, its weight
\* grown past the initial one
UnconstrainedWeightGrown ==
  /\ last.op = "step"
  /\ state.params.compiled
  /\ state.constrFns = <<>>
  /\ Gt(state.params.weight, initConstraintWeight)
  /\ Gt(Energy(state, state.params.weight, state.varyingValues), Zero)

\* C28: in every state with status UnconstrainedRunning or
\* UnconstrainedConverged the closures currObjective / currGradient are bound
\* to the penalty weight params.weight, also after a step on a state that was
\* reset to NewIter with its closures compiled and its weight grown.
ClosuresBoundToWeight ==
  state.params.optStatus \in { "UnconstrainedRunning", "UnconstrainedConverged" }
    => state.params.currWeight = state.params.weight

\* C29: for the same state and budget, step with evaluate = true and step
\* with evaluate = false return the same varyingValues and the same params.
EvaluateOnlyProjects ==
  \A n \in 0..MaxInner :
    ~step(state, n, TRUE).threw /\ ~step(state, n, FALSE).threw
      => /\ step(state, n, TRUE).ret.varyingValues
              = step(state, n, FALSE).ret.varyingValues
         /\ step(state, n, TRUE).ret.params = step(state, n, FALSE).ret.params

\* C30: a step on an UnconstrainedRunning state with a budget of 0 returns
\* UnconstrainedRunning; a step returns UnconstrainedConverged only if it
\* evaluated the energy and the gradient at the variables it returns and the
\* metric <gradient, preconditionedGradient> there is below 1e-2.
ConvergenceNeedsEvaluation ==
  RunningStepped /\ ~last.threw
    => /\ last.steps = 0 => state.params.optStatus = "UnconstrainedRunning"
       /\ state.params.optStatus = "UnconstrainedConverged"
            => /\ last.run.evals >= 1
               /\ state.params.lastUOstate = state.varyingValues
               /\ state.params.lastUOenergy
                    = Energy(state, state.params.currWeight, state.varyingValues)
               /\ state.params.lastGradient
                    = EnergyGrad(state, state.params.currWeight, state.varyingValues)
               /\ Lt(GradientMetric, <<1, 100>>)

\* the variables st reports are those of the last unconstrained run, and the
\* recorded energy is the energy of that vector at the weight w
ReportsLastRun(st, w) ==
  /\ st.varyingValues = st.params.lastUOstate
  /\ st.params.lastUOenergy = Energy(st, w, st.varyingValues)

\* C31: a step with a positive budget that takes an UnconstrainedRunning state
\* to UnconstrainedConverged returns variables equal to lastUOstate, and
\* lastUOenergy is the energy of exactly that vector at the weight the run
\* used.  A step that takes such a state on to EPConverged keeps both and
\* returns lastEPstate = lastUOstate.
ConvergedReportsLastRun ==
  [][/\ last'.op = "step" /\ last'.steps >= 1
        /\ state.params.optStatus = "UnconstrainedRunning"
        /\ state'.params.optStatus = "UnconstrainedConverged"
        => ReportsLastRun(state', state.params.currWeight)
     /\ last'.op = "step"
        /\ state.params.optStatus = "UnconstrainedConverged"
        /\ state'.params.optStatus = "EPConverged"
        /\ ReportsLastRun(state, state.params.currWeight)
        => /\ ReportsLastRun(state', state.params.currWeight)
           /\ state'.params.currWeight = state.params.currWeight
           /\ state'.params.lastEPstate = state'.params.lastUOstate]_vars

\* an EPConverged state whose last run moved the variables and evaluated a
\* positive energy
EPConvergedReported ==
  /\ Returned
  /\ last.status = "UnconstrainedConverged"
  /\ state.params.optStatus = "EPConverged"
  /\ edits = 0
  /\ ReportsLastRun(state, state.params.currWeight)
  /\ state.params.lastEPstate = state.params.lastUOstate
  /\ state.varyingValues \notin { p[2] : p \in InitProblems }

RECURSIVE PowerOfTen(_)
PowerOfTen(n) == IF n <= 0 THEN One ELSE Mul(<<10, 1>>, PowerOfTen(n - 1))

\* C32: after every returning step the weight is the initial weight times
\* 10^EPround unless the status is still NewIter; a step on a NewIter state
\* returns EPround 0, a step on an UnconstrainedConverged state that does not
\* return EPConverged adds 1 to EPround, and every other step keeps it, so
\* EPround counts the converged steps that started a next round.
WeightTracksRound ==
  [][last'.op = "step" /\ ~last'.threw
       => /\ state'.params.optStatus # "NewIter"
               => state'.params.weight
                    = Mul(initConstraintWeight, PowerOfTen(state'.params.EPround))
          /\ state.params.optStatus = "NewIter" => state'.params.EPround = 0
          /\ state.params.optStatus = "UnconstrainedConverged"
               => state'.params.EPround
                    = IF state'.params.optStatus = "EPConverged"
                      THEN state.params.EPround ELSE state.params.EPround + 1
          /\ state.params.optStatus \notin { "NewIter", "UnconstrainedConverged" }
               => state'.params.EPround = state.params.EPround]_vars

\* a state of the third round after a reset: two converged steps since the
\* NewIter step, weight 1
RoundTwoAfterReset ==
  /\ Returned
  /\ edits = 1
  /\ state.params.EPround = 2
  /\ state.params.weight = One

\* the run of minimize that the step on state makes with the budget of the
\* step just taken
FailedRun ==
  minimize(state.varyingValues, state, state.params.currWeight,
           state.params.lbfgsInfo, last'.steps)

\* C33: a step that takes an UnconstrainedRunning state to Error returns the
\* varyingValues and the translation of the state passed in, while
\* lastUOstate, lastUOenergy, lastGradient and lbfgsInfo are those of the
\* failed run.
ErrorKeepsVariables ==
  [][last'.op = "step" /\ state.params.optStatus = "UnconstrainedRunning"
       /\ state'.params.optStatus = "Error"
       => /\ state'.varyingValues = state.varyingValues
          /\ state'.translation = state.translation
          /\ FailedRun.failed
          /\ state'.params.lastUOstate = FailedRun.xs
          /\ state'.params.lastUOenergy = FailedRun.energyVal
          /\ state'.params.lastGradient = FailedRun.gradient
          /\ state'.params.lbfgsInfo = FailedRun.newLbfgsInfo]_vars

\* a failed run that had moved the variables before it failed: lastUOstate
\* holds the iterate, the reported variables do not
IterateNotReported ==
  /\ Returned
  /\ last.status = "UnconstrainedRunning"
  /\ state.params.optStatus = "Error"
  /\ last.run.i >= 1
  /\ state.params.lastUOstate # state.varyingValues

\* C34: in every memory record reached from the default record through calls
\* of lbfgs with memSize >= 1, lastState and lastGrad are present exactly
\* when the step count is >= 1, the default record holds no pair, a record
\* with step count k >= 1 holds min(k - 1, memSize) pairs in each list, and no
\* call raises (the 'Invalid L-BFGS state' branch is not taken).
MemoryWellFormed ==
  LET info == state.params.lbfgsInfo
      k == info.numUnconstrSteps
  IN info.memSize >= 1
       => /\ info.lastState.tag = "Just" <=> k >= 1
          /\ info.lastGrad.tag = "Just" <=> k >= 1
          /\ k >= 0
          /\ Len(info.s_list) = Len(info.y_list)
          /\ Len(info.s_list) = IF k = 0 THEN 0
                                ELSE IF k - 1 < info.memSize THEN k - 1
                                ELSE info.memSize
          /\ last.op = "lbfgs" => ~last.threw

\* three calls with memSize 1, all accepted: two pairs were computed and the
\* memory holds one
MemoryFull ==
  /\ last.op = "lbfgs"
  /\ ~last.threw
  /\ state.params.lbfgsInfo.memSize = 1
  /\ state.params.lbfgsInfo.numUnconstrSteps = 3
  /\ Len(state.params.lbfgsInfo.y_list) = 1
  /\ state.params.lbfgsInfo.lastGrad.tag = "Just"

(***************************************************************************)
(* The while loop of awLineSearch2 (part_001, 468-528) one pass at a time: *)
(* state and arg as in LineSearchSpec, last the loop variables a, b, t, i  *)
(* before the next pass, done once the loop was left (found: by the break  *)
(* on both conditions).                                                    *)
(***************************************************************************)
\* the next trial computed from the bracket as it was before the update
lsPassStale(prob, w, cx, a, b, t, i) ==
  LET next == IF Lt(b, PosInf) THEN Div(Add(a, b), Two) ELSE Mul(Two, a)
      isArmijo == armijo(prob, w, cx.xs0, cx.descentDir, cx.fxs0, cx.dufAtx0, t)
      isWolfe == weakWolfe(prob, w, cx.xs0, cx.descentDir, cx.dufAtx0, t)
  IN IF shouldStop(i, a, b)
     THEN [a |-> a, b |-> b, t |-> t, i |-> i, done |-> TRUE, found |-> FALSE]
     ELSE IF ~isArmijo
     THEN [a |-> a, b |-> t, t |-> next, i |-> i + 1, done |-> FALSE, found |-> FALSE]
     ELSE IF ~isWolfe
     THEN [a |-> t, b |-> b, t |-> next, i |-> i + 1, done |-> FALSE, found |-> FALSE]
     ELSE [a |-> a, b |-> b, t |-> t, i |-> i, done |-> TRUE, found |-> TRUE]

lsPass(prob, w, cx, a, b, t, i) ==
  LET isArmijo == armijo(prob, w, cx.xs0, cx.descentDir, cx.fxs0, cx.dufAtx0, t)
      isWolfe == weakWolfe(prob, w, cx.xs0, cx.descentDir, cx.dufAtx0, t)
      a1 == IF isArmijo /\ ~isWolfe THEN t ELSE a
      b1 == IF ~isArmijo THEN t ELSE b
  IN IF shouldStop(i, a, b)
     THEN [a |-> a, b |-> b, t |-> t, i |-> i, done |-> TRUE, found |-> FALSE]
     ELSE IF isArmijo /\ isWolfe
     THEN [a |-> a, b |-> b, t |-> t, i |-> i, done |-> TRUE, found |-> TRUE]
     ELSE [a |-> a1, b |-> b1,
           t |-> IF Lt(b1, PosInf) THEN Div(Add(a1, b1), Two) ELSE Mul(Two, a1),
           i |-> i + 1, done |-> FALSE, found |-> FALSE]

TrialInit ==
  /\ \E p \in LineSearchPoints : \E k \in DirectionScales :
       /\ state = initState(p[1], p[2])
       /\ arg = [xs0 |-> p[2],
                 gradfxs0 |-> scalev(k, EnergyGrad(p[1], initConstraintWeight, p[2])),
                 fxs0 |-> Energy(p[1], initConstraintWeight, p[2])]
  /\ last = [op |-> "start", a |-> Zero, b |-> PosInf, t |-> One, i |-> 0,
             done |-> FALSE, found |-> FALSE]
  /\ edits = 0
  /\ phases = 0

Trial ==
  /\ ~last.done
  /\ last' = [op |-> "pass"]
               @@ lsPass(state, state.params.weight,
                         lsContext(arg.xs0, negv(arg.gradfxs0), arg.fxs0,
                                   EnergyGrad(state, state.params.weight, arg.xs0)),
                         last.a, last.b, last.t, last.i)
  /\ UNCHANGED <<state, arg, edits, phases>>

TrialNext == Trial

TrialSpec == TrialInit /\ [][TrialNext]_vars

\* 0 <= a <= t <= b and t > 0 for the loop variables v
Bracketed(v) ==
  /\ Le(Zero, v.a)
  /\ Le(v.a, v.t)
  /\ Le(v.t, v.b)
  /\ Gt(v.t, Zero)

\* C35: before and after every pass of the line search 0 <= a <= t <= b and
\* t > 0; a pass does not lower a and does not raise b; and the loop left, its
\* variables are the result of awLineSearch2, so the returned t is positive
\* and inside the final bracket.
BracketKept ==
  [][/\ Bracketed(last)
     /\ Bracketed(last')
     /\ Le(last.a, last'.a)
     /\ Le(last'.b, last.b)
     /\ last'.done
         => LET r == awLineSearch2(state, state.params.weight,
                                   arg.xs0, arg.gradfxs0, arg.fxs0)
            IN /\ r.t = last'.t /\ r.a = last'.a /\ r.b = last'.b
               /\ r.i = last'.i /\ r.found = last'.found]_vars

\* a search left after a was raised from 0: the returned t = 2 is twice the
\* lower end 1 of the final bracket, whose upper end is still +infinity
BracketRaised ==
  /\ last.op = "pass"
  /\ last.done
  /\ last.found
  /\ last.i = 1
  /\ last.a = One
  /\ last.t = Two
  /\ last.b = PosInf

(***************************************************************************)
(* The colouring of shapes (packages/core/src/renderer/Color.ts).  Nodes   *)
(* and palette entries are numbered from 1 where the code numbers them     *)
(* from 0.  state holds the centres of the shapes to colour, the KNN graph, *)
(* k, the sampled colours and the colour list under construction; phases   *)
(* is the number of nodes the greedy loop has coloured; last the latest    *)
(* assignment.                                                             *)
(***************************************************************************)
\* the square of dist(v1, v2): the distances are only compared, and the
\* square root keeps their order and their ties
distSquared(v1, v2) ==
  (v1[1] - v2[1]) * (v1[1] - v2[1]) + (v1[2] - v2[2]) * (v1[2] - v2[2])

shapeListToDistanceGraph(centers) ==
  [i \in 1..Len(centers) |->
     [j \in 1..Len(centers) |-> distSquared(centers[i], centers[j])]]

\* row i without node i, sorted by distance (the sort is stable: equal
\* distances keep the order of the indices), cut to the first k
distGraphToKNNGraph(distGraph, k) ==
  [i \in 1..Len(distGraph) |->
     LET others == (1..Len(distGraph)) \ {i}
         before(x, y) == \/ distGraph[i][x] < distGraph[i][y]
                         \/ distGraph[i][x] = distGraph[i][y] /\ x < y
         place(x) == 1 + Cardinality({ y \in others : before(y, x) })
     IN [j \in 1..k |-> CHOOSE x \in others : place(x) = j]]

\* random_palette(): a list of distinct colours, here their numbers
PaletteLength == 8
random_palette == [c \in 1..PaletteLength |-> c]

sampleUniformPalette(numColorsRequested, palette) ==
  LET stepSize == Len(palette) \div numColorsRequested
  IN [i \in 1..numColorsRequested |-> palette[(i - 1) * stepSize + 1]]

\* [-1, -1, -1], the entry of a node that has no colour yet
NoColor == -1

\* getNewlyColoredState: the number of neighbours
neighbourCount(n) == IF n <= 3 THEN n - 1 ELSE 3

\* the indexes of colorsToAssign that the greedy loop may give to node: those
\* that are not the colour of a neighbour of node with a smaller number
availableColorIndexes(st, node) ==
  LET nodeNbors == st.KNNGraph[node]
      colorsThatCannotBeUsed ==
        { st.colorList[nodeNbors[j]] : j \in { q \in DOMAIN nodeNbors : nodeNbors[q] < node } }
      free == { c \in DOMAIN st.colorsToAssign :
                  st.colorsToAssign[c] \notin colorsThatCannotBeUsed }
  IN [j \in 1..Cardinality(free) |->
        CHOOSE c \in free : Cardinality({ d \in free : d < c }) = j - 1]

\* Math.floor(Math.random() * (length - 1)): any of 0 .. length - 2, and 0
\* for a list of one
randomColorIndexIndexes(length) == IF length <= 1 THEN {0} ELSE 0..(length - 2)

ColorLayouts ==
  { << <<10, 0>>, <<0, 0>>, <<1, 0>>, <<2, 0>>, <<3, 0>> >>,
    << <<0, 0>>, <<1, 0>>, <<2, 0>>, <<3, 0>>, <<10, 0>> >>,
    << <<0, 0>>, <<3, 4>>, <<6, 0>> >>,
    << <<0, 0>>, <<1, 1>> >> }

ColorInit ==
  /\ \E centers \in ColorLayouts :
       LET k == neighbourCount(Len(centers))
       IN state = [centers |-> centers, k |-> k,
                   KNNGraph |-> distGraphToKNNGraph(shapeListToDistanceGraph(centers), k),
                   colorsToAssign |-> sampleUniformPalette(2 * k, random_palette),
                   colorList |-> [i \in 1..Len(centers) |-> NoColor]]
  /\ arg = state
  /\ last = [op |-> "init", node |-> 0, color |-> NoColor]
  /\ edits = 0
  /\ phases = 0

\* one pass of the loop over the nodes of KNNGraphToColorList
ColorNode ==
  /\ phases < Len(state.KNNGraph)
  /\ LET node == phases + 1
         available == availableColorIndexes(state, node)
     IN \E r \in randomColorIndexIndexes(Len(available)) :
          LET randomColor == state.colorsToAssign[available[r + 1]]
          IN /\ state' = [state EXCEPT !.colorList[node] = randomColor]
             /\ last' = [op |-> "color", node |-> node, color |-> randomColor]
  /\ phases' = phases + 1
  /\ UNCHANGED <<arg, edits>>

ColorNext == ColorNode

ColorSpec == ColorInit /\ [][ColorNext]_vars

\* C36: in the finished colour list every node has a colour of the palette,
\* and every node i and every node j among the k nearest neighbours of i have
\* different colours.
NeighboursDiffer ==
  phases = Len(state.KNNGraph)
    => /\ \A i \in DOMAIN state.colorList :
            state.colorList[i] \in { random_palette[c] : c \in DOMAIN random_palette }
       /\ \A i \in DOMAIN state.KNNGraph : \A q \in DOMAIN state.KNNGraph[i] :
            state.colorList[i] # state.colorList[state.KNNGraph[i][q]]

(***************************************************************************)
(* pointInShape (Color.ts, 450-514) on its own: state is the shape, arg    *)
(* the point, last the result of the call.  Coordinates and sizes are      *)
(* integers.                                                               *)
(***************************************************************************)
\* Math.sqrt(d2) <= r for an integer d2 >= 0
sqrtAtMost(d2, r) == r >= 0 /\ d2 <= r * r

pointInShape(shape, point) ==
  LET px == point[1]
      py == point[2]
      cx == shape.center[1]
      cy == shape.center[2]
  IN CASE shape.shapeType = "Circle" ->
            sqrtAtMost((cx - px) * (cx - px) + (cy - py) * (cy - py), shape.r)
       [] shape.shapeType \in { "Rectangle", "Callout" } ->
            /\ cx - shape.w <= px /\ px <= cx + shape.w
            /\ cy - shape.h <= py /\ py <= cy + shape.h
       [] shape.shapeType = "Square" ->
            /\ cx - shape.side <= px /\ px <= cx + shape.side
            /\ cy - shape.side <= py /\ py <= cy + shape.side

MaxPoint == 4

PointShapes ==
  { [shapeType |-> "Circle", center |-> c, r |-> r] :
      c \in { <<0, 0>>, <<1, -1>> }, r \in { 0, 2 } }
    \cup { [shapeType |-> t, center |-> c, w |-> 4, h |-> 2] :
             t \in { "Rectangle", "Callout" }, c \in { <<0, 0>>, <<1, -1>> } }
    \cup { [shapeType |-> "Square", center |-> c, side |-> 2] :
             c \in { <<0, 0>>, <<1, -1>> } }

PointInit ==
  /\ state \in PointShapes
  /\ arg \in (-MaxPoint..MaxPoint) \X (-MaxPoint..MaxPoint)
  /\ last = [op |-> "init", result |-> FALSE]
  /\ edits = 0
  /\ phases = 0

PointTest ==
  /\ last.op = "init"
  /\ last' = [op |-> "pointInShape", result |-> pointInShape(state, arg)]
  /\ UNCHANGED <<state, arg, edits, phases>>

PointNext == PointTest

PointSpec == PointInit /\ [][PointNext]_vars

\* twice the distance of the point from the centre of the shape along axis n
TwiceOffset(n) ==
  IF arg[n] >= state.center[n] THEN 2 * (arg[n] - state.center[n])
  ELSE 2 * (state.center[n] - arg[n])

\* the point is contained in the shape: within r of the centre of a circle,
\* within half the width and half the height of the centre of a rectangle or
\* callout, within half the side of the centre of a square
PointContained ==
  CASE state.shapeType = "Circle" ->
         /\ state.r >= 0
         /\ TwiceOffset(1) * TwiceOffset(1) + TwiceOffset(2) * TwiceOffset(2)
              <= 4 * state.r * state.r
    [] state.shapeType \in { "Rectangle", "Callout" } ->
         TwiceOffset(1) <= state.w /\ TwiceOffset(2) <= state.h
    [] state.shapeType = "Square" ->
         TwiceOffset(1) <= state.side /\ TwiceOffset(2) <= state.side

\* C37: pointInShape(shape, p) is true if and only if p is contained in the
\* shape.
PointInShapeExact ==
  last.op = "pointInShape" => (last.result <=> PointContained)

(***************************************************************************)
(* The workspace operations of the editor (part_000, 355-714).             *)
(*   state.ws       the IWorkspaceState last dispatched with SET_WORKSPACE *)
(*                  (what the next operation's closure holds)              *)
(*   state.layout   the tabs of the layout Model: one mutable object that  *)
(*                  every copy of the workspace state refers to            *)
(*   state.pending  the debounced saves not yet written, one per file id   *)
(*   state.storage  window.localStorage                                    *)
(*   state.nextId   how many ids v4() has handed out so far                *)
(*   arg            the workspace state the latest operation started from  *)
(*   last           the latest operation and whether it called             *)
(*                  _updateWorkspace                                       *)
(* A pointer is [type, id, name, location, localStorageKey]; the key of a  *)
(* non-local pointer is the empty sequence.  Names are sequences of words. *)
(***************************************************************************)
MaxIds == 2

pointerToLocalStorageKey(pointer) == <<pointer.type, pointer.id>>

\* v4(): an id that was not handed out before
v4(app) == "v" \o ToString(app.nextId + 1)

\* debouncedSave(fileId)(filePointer, file): the call replaces the pending
\* call of the same fileId
debouncedSave(pending, fileId, filePointer, file) ==
  { s \in pending : s.fileId # fileId }
    \cup { [fileId |-> fileId, key |-> filePointer.localStorageKey, file |-> file] }

\* _updateWorkspace: the app after the call; app.ws is the returned state
updateWorkspace(app, workspaceState) ==
  LET old == workspaceState.workspacePointer
      newId == v4(app)
      forked == [type |-> "workspace", id |-> newId,
                 name |-> <<"fork", "of">> \o old.name,
                 location |-> "local",
                 localStorageKey |-> pointerToLocalStorageKey(
                                       [type |-> "workspace", id |-> newId])]
      fork == old.location # "local"
      pointer == IF fork THEN forked ELSE old
      st == IF fork
            THEN [workspaceState EXCEPT !.workspacePointer = pointer,
                                        !.openWorkspace.id = newId]
            ELSE workspaceState
  IN [app EXCEPT
        !.ws = st,
        !.nextId = IF fork THEN @ + 1 ELSE @,
        !.pending = debouncedSave(app.pending, st.openWorkspace.id, pointer,
                                  [type |-> "workspace_file",
                                   id |-> st.openWorkspace.id,
                                   contents |-> [st.openWorkspace EXCEPT
                                                   !.layout = app.layout]])]

\* _closeWorkspaceFile
closeWorkspaceFile(app, workspaceState, id) ==
  updateWorkspace(app,
    [workspaceState EXCEPT
       !.fileContents = @ \ {id},
       !.openWorkspace.openFiles = { f \in @ : f.id # id }])

ExamplePointers ==
  { [type |-> "substance", id |-> "sub", name |-> <<"sub">>,
     location |-> "example", localStorageKey |-> <<>>],
    [type |-> "style", id |-> "sty", name |-> <<"sty">>,
     location |-> "example", localStorageKey |-> <<>>] }

\* a pointer whose file cannot be retrieved
GistPointer ==
  [type |-> "domain", id |-> "gist", name |-> <<"gist">>,
   location |-> "gist", localStorageKey |-> <<>>]

WorkspacePointers ==
  { [type |-> "cached_workspace", id |-> "trio", name |-> <<"trio">>,
     location |-> "example", localStorageKey |-> <<>>],
    [type |-> "workspace", id |-> "mine", name |-> <<"mine">>,
     location |-> "local", localStorageKey |-> <<"workspace", "mine">>] }

\* useLoadWorkspace: an example workspace opens the files of its trio
\* (buildExampleWorkspace), a stored one the files it was saved with
WorkspaceInit ==
  /\ \E wp \in WorkspacePointers :
       LET files == IF wp.location = "example"
                    THEN ExamplePointers
                    ELSE { f \in ExamplePointers : f.id = "sub" }
       IN state = [ws |-> [workspacePointer |-> wp,
                           fileContents |-> { f.id : f \in files },
                           openWorkspace |->
                             [id |-> wp.id, name |-> wp.name,
                              openFiles |-> files,
                              layout |-> "Model"]],
                   layout |-> { f.id : f \in files },
                   pending |-> {},
                   storage |-> {},
                   nextId |-> 0]
  /\ arg = state.ws
  /\ last = [op |-> "init", called |-> FALSE]
  /\ edits = 0
  /\ phases = 0

\* useOpenFileInWorkspace
OpenFile(pointer) ==
  /\ state.nextId < MaxIds
  /\ arg' = state.ws
  /\ IF pointer.id \in { f.id : f \in state.ws.openWorkspace.openFiles }
        \/ pointer.location \notin { "local", "example" }
     THEN /\ state' = state
          /\ last' = [op |-> "open", called |-> FALSE]
     ELSE /\ state' =
               [updateWorkspace(state,
                  [state.ws EXCEPT
                     !.fileContents = @ \cup {pointer.id},
                     !.openWorkspace.openFiles = @ \cup {pointer}])
                EXCEPT !.layout = @ \cup {pointer.id}]
          /\ last' = [op |-> "open", called |-> TRUE]
  /\ UNCHANGED <<edits, phases>>

\* useCloseWorkspaceFile
CloseFile(id) ==
  /\ state.nextId < MaxIds
  /\ id \in { f.id : f \in state.ws.openWorkspace.openFiles }
  /\ arg' = state.ws
  /\ state' = closeWorkspaceFile([state EXCEPT !.layout = @ \ {id}], state.ws, id)
  /\ last' = [op |-> "close", called |-> TRUE]
  /\ UNCHANGED <<edits, phases>>

\* useUpdateNodeToNewDiagram
NewDiagram ==
  /\ state.nextId < MaxIds
  /\ arg' = state.ws
  /\ LET id == v4(state)
         diagramPointer ==
           [type |-> "diagram_state", id |-> id, name |-> <<"Diagram">>,
            location |-> "local",
            localStorageKey |-> pointerToLocalStorageKey(
                                  [type |-> "diagram_state", id |-> id])]
     IN state' =
          [updateWorkspace([state EXCEPT !.nextId = @ + 1],
             [state.ws EXCEPT
                !.fileContents = @ \cup {id},
                !.openWorkspace.openFiles = @ \cup {diagramPointer}])
           EXCEPT !.layout = @ \cup {id}]
  /\ last' = [op |-> "new", called |-> TRUE]
  /\ UNCHANGED <<edits, phases>>

\* _updateFile
UpdateFile(id) ==
  /\ state.nextId < MaxIds
  /\ \E old \in state.ws.openWorkspace.openFiles :
       /\ old.id = id
       /\ arg' = state.ws
       /\ IF old.location = "local"
          THEN /\ state' = [state EXCEPT
                              !.pending = debouncedSave(@, id, old,
                                            [type |-> "program_file", id |-> id])]
               /\ last' = [op |-> "update", called |-> FALSE]
          ELSE LET newId == v4(state)
                   pointer == [old EXCEPT
                                 !.id = newId, !.location = "local",
                                 !.localStorageKey =
                                    pointerToLocalStorageKey([old EXCEPT !.id = newId])]
                   app1 == updateWorkspace([state EXCEPT !.nextId = @ + 1],
                             [state.ws EXCEPT
                                !.fileContents = @ \cup {newId},
                                !.openWorkspace.openFiles = @ \cup {pointer}])
                   app2 == [app1 EXCEPT !.layout = (@ \ {id}) \cup {newId}]
                   app3 == closeWorkspaceFile(app2, app2.ws, id)
               IN /\ state' = [app3 EXCEPT
                                 !.pending = debouncedSave(@, newId, pointer,
                                               [type |-> "program_file", id |-> newId])]
                  /\ last' = [op |-> "update", called |-> TRUE]
  /\ UNCHANGED <<edits, phases>>

\* the timer of a debounced save runs out: localStorage.setItem
Flush ==
  /\ \E s \in state.pending :
       state' = [state EXCEPT
                   !.pending = @ \ {s},
                   !.storage = { e \in @ : e.key # s.key }
                                 \cup { [key |-> s.key, file |-> s.file] }]
  /\ last' = [op |-> "flush", called |-> FALSE]
  /\ UNCHANGED <<arg, edits, phases>>

WorkspaceNext ==
  \/ \E pointer \in ExamplePointers \cup {GistPointer} : OpenFile(pointer)
  \/ \E id \in { f.id : f \in state.ws.openWorkspace.openFiles } : CloseFile(id)
  \/ NewDiagram
  \/ \E id \in { f.id : f \in state.ws.openWorkspace.openFiles } : UpdateFile(id)
  \/ Flush

WorkspaceSpec == WorkspaceInit /\ [][WorkspaceNext]_vars

\* the ids a workspace state holds
IdsOf(ws) ==
  {ws.workspacePointer.id, ws.openWorkspace.id}
    \cup { f.id : f \in ws.openWorkspace.openFiles }

\* the dispatched pointer is the fork of the pointer the operation started from
ForkOf(ws, old) ==
  /\ ws.workspacePointer.id \notin IdsOf(old)
  /\ ws.workspacePointer.name = <<"fork", "of">> \o old.workspacePointer.name
  /\ ws.workspacePointer.localStorageKey =
       <<ws.workspacePointer.type, ws.workspacePointer.id>>
  /\ ws.openWorkspace.id = ws.workspacePointer.id

\* the save waiting under the workspace id holds the dispatched state
SavedIsDispatched ==
  \E s \in state.pending :
    /\ s.fileId = state.ws.openWorkspace.id
    /\ s.key = state.ws.workspacePointer.localStorageKey
    /\ s.file.contents = [state.ws.openWorkspace EXCEPT !.layout = state.layout]

\* C38: after every open-file, close-file, new-diagram and update-file
\* operation the dispatched workspace pointer is local: a non-local workspace
\* was replaced by a fork with a fresh id, the name "fork of <old name>", the
\* key "<type>-<id>" and openWorkspace.id equal to the new pointer id, a local
\* pointer and workspace id are unchanged, and the state saved under the
\* workspace id is the state that was dispatched.
WorkspaceKeptLocal ==
  last.op \in { "open", "close", "new", "update" } =>
    /\ state.ws.workspacePointer.location = "local"
    /\ IF arg.workspacePointer.location # "local"
       THEN ForkOf(state.ws, arg)
       ELSE /\ state.ws.workspacePointer = arg.workspacePointer
            /\ state.ws.openWorkspace.id = arg.openWorkspace.id
    /\ SavedIsDispatched

\* C39: containsNaN(list) is true exactly when an element of the list is NaN,
\* so a step that runs minimize (UnconstrainedRunning, a budget of at least
\* one pass) on a variable vector containing NaN raises at the first test of
\* the loop instead of returning.
ContainsNaNDetects ==
  (last.op = "step" /\ last.status = "UnconstrainedRunning" /\ last.steps >= 1) =>
    /\ (containsNaN(arg.varyingValues) <=> HasNaN(arg.varyingValues))
    /\ (HasNaN(arg.varyingValues) => last.threw)


=============================================================================
